---- MODULE Spec2Model ----
(***************************************************************************)
(* Model of the complex_pdf processing pipeline:                           *)
(*   - PDFProcessor.run            (pipeline/processor.py)                 *)
(*   - run_ocr_step, run_context_step, run_enhance_step, run_table_step    *)
(*     (pipeline/steps/*.py) and the functions they call                   *)
(*   - the artifact store: the per-page directory tree under               *)
(*     config.pdf_base_path                                                *)
(* The external services (docling OCR, fitz rendering, the litellm model   *)
(* call) are nondeterministic: each call draws its outcome from a small    *)
(* set.                                                                    *)
(***************************************************************************)
EXTENDS Integers, Sequences, FiniteSets, TLC

(* ------------------------------ bounds --------------------------------- *)
\* page_count of the PDF document (fitz.open(pdf).page_count)
NumPages == 2
\* largest number of tables docling reports on one page
MaxTables == 2
\* longest `steps` list passed to PDFProcessor.run
MaxSteps == 2
\* number of calls of PDFProcessor.run on one processor
MaxRuns == 1

Pages == 1..NumPages

(* ------------------------------ helpers -------------------------------- *)
Min(a, b) == IF a <= b THEN a ELSE b

Range(s) == {s[i] : i \in 1..Len(s)}

\* list(range(a, b + 1))
RECURSIVE RangeSeq(_, _)
RangeSeq(a, b) == IF a > b THEN <<>> ELSE <<a>> \o RangeSeq(a + 1, b)

(* --------------------------- configuration ----------------------------- *)
\* encodings of `config.max_pages`: the attribute is absent (PipelineConfig
\* declares no such field), it is None, or it is a positive cap
NoAttr == "no_attr"
NoneVal == "none"
CapVal == "cap"

MaxPagesChoices ==
    {[kind |-> NoAttr, cap |-> 0], [kind |-> NoneVal, cap |-> 0], [kind |-> CapVal, cap |-> 1]}

\* config.model_name: a model identifier, or None
ModelNames == {"openai/gpt-4o", NoneVal}

Configs ==
    [skip_ocr_if_exists : BOOLEAN,
     skip_metadata_if_exists : BOOLEAN,
     max_pages : MaxPagesChoices,
     model_name : ModelNames]

(* ------------------------------ stages --------------------------------- *)
\* keys of all_steps, in insertion order
AllSteps == <<"ocr", "context", "enhance", "table">>

\* the step functions exported by pipeline/steps/__init__.py, in the order of
\* their "Step n" numbering
ExportedSteps == <<"ocr", "improve_table", "context", "enhance", "table", "image">>

StepTitle(s) ==
    CASE s = "ocr" -> "OCR Extraction"
      [] s = "context" -> "Context Metadata"
      [] s = "enhance" -> "Enhance Metadata"
      [] s = "table" -> "Table Metadata"

\* names a caller may put in `steps`: the registered ones and a misspelt one
StepNames == Range(AllSteps) \cup {"tabel"}

StepLists == UNION {[1..n -> StepNames] : n \in 0..MaxSteps}

\* the `steps` argument: None, or a list of names
StepsArgs == {[none |-> TRUE, list |-> <<>>]} \cup {[none |-> FALSE, list |-> l] : l \in StepLists}

(* --------------------------- artifact store ---------------------------- *)
TableId(p, k) == <<"table", p, k>>
ImageId(p, k) == <<"image", p, k>>
TextName(p) == <<"page_text", p>>

\* the artifacts of table k of page p under page_<p>/tables/: the names of its
\* HTML and PNG files and the text table.export_to_html writes to the HTML file
TableFile(p, k) == TableId(p, k) \o <<".html">>
TableImage(p, k) == TableId(p, k) \o <<".png">>
TableHtml(p, k) == <<"html", "of">> \o TableId(p, k)

\* what docling returns for one page: number of tables, of pictures with
\* area >= 400, and of text items
Layouts ==
    {[tables |-> 0, figures |-> 0, texts |-> 0],
     [tables |-> 1, figures |-> 0, texts |-> 1],
     [tables |-> MaxTables, figures |-> 1, texts |-> 2]}

NoBasic == [exists |-> FALSE]

\* the dict written to metadata_page_<n>.json
BasicMetadata(p, lay) ==
    [exists |-> TRUE,
     page_number |-> p,
     tables |-> [k \in 1..lay.tables |-> TableId(p, k)],
     figures |-> [k \in 1..lay.figures |-> ImageId(p, k)],
     text_blocks |-> IF lay.texts > 0 THEN <<TextName(p)>> ELSE <<>>]

NoCtx == [exists |-> FALSE]

\* a page directory that does not exist
\* html[k] is the text of the k-th table HTML file, nimages the number of
\* image-*.png files under images/
NoPage ==
    [dir |-> FALSE, img |-> FALSE, ntables |-> 0, html |-> <<>>, nimages |-> 0,
     basic |-> NoBasic, ctx |-> NoCtx]

\* page_<n>/ with its tables/, images/ and text/ folders created, nothing written
EmptyPageDir == [NoPage EXCEPT !.dir = TRUE]

\* a page as export_figures_tables_and_text leaves it
ExtractedPage(old, p, lay) ==
    [dir |-> TRUE, img |-> TRUE,
     ntables |-> IF old.ntables > lay.tables THEN old.ntables ELSE lay.tables,
     html |-> [k \in 1..(IF old.ntables > lay.tables THEN old.ntables ELSE lay.tables) |->
                  IF k <= lay.tables THEN TableHtml(p, k) ELSE old.html[k]],
     nimages |-> IF old.nimages > lay.figures THEN old.nimages ELSE lay.figures,
     basic |-> BasicMetadata(p, lay),
     ctx |-> old.ctx]

HasPageDirs(st) == \E p \in Pages : st[p].dir

\* sorted page_* directories
PageDirs(st) == SelectSeq(RangeSeq(1, NumPages), LAMBDA p : st[p].dir)

CountPageDirs(st) == Cardinality({p \in Pages : st[p].dir})

(* ----------------------- model-service responses ----------------------- *)
\* A response text is a sequence of tokens: "ws" is a run of whitespace,
\* "fence_json" is the marker of a json code fence (three backquotes followed by
\* json), "fence" is three backquotes, "doc1"/"doc2" are well-formed JSON objects
\* and "junk" is text that is not JSON.
Docs == {"doc1", "doc2"}

Responses ==
    {<<"doc1">>,
     <<"ws", "fence_json", "ws", "doc2", "ws", "fence", "ws">>,
     <<"fence", "ws", "doc1", "ws", "fence">>,
     <<"junk">>}

ServiceError == <<"service_error">>

\* outcomes of one litellm_client.chat call
ServiceOutcomes == Responses \cup {ServiceError}

\* str.strip()
RECURSIVE LStrip(_)
LStrip(s) == IF s # <<>> /\ Head(s) = "ws" THEN LStrip(Tail(s)) ELSE s

RECURSIVE RStrip(_)
RStrip(s) == IF s # <<>> /\ s[Len(s)] = "ws" THEN RStrip(SubSeq(s, 1, Len(s) - 1)) ELSE s

Strip(s) == RStrip(LStrip(s))

\* str.removeprefix(t) / str.removesuffix(t)
RemovePrefix(s, t) == IF s # <<>> /\ Head(s) = t THEN Tail(s) ELSE s

RemoveSuffix(s, t) == IF s # <<>> /\ s[Len(s)] = t THEN SubSeq(s, 1, Len(s) - 1) ELSE s

\* metadata_content.strip().removeprefix(<json fence>).removesuffix(<fence>).strip()
CleanJsonStr(s) == Strip(RemoveSuffix(RemovePrefix(Strip(s), "fence_json"), "fence"))

\* json.loads accepts one JSON value with surrounding whitespace
JsonLoadsOk(s) == Len(Strip(s)) = 1 /\ Strip(s)[1] \in Docs

JsonLoads(s) == Strip(s)[1]

\* whether the name `json` is bound in the globals of extract_page_context when
\* the module is imported: its only `import json` sits under
\* `if __name__ == "__main__":`
JsonBoundOnImport == FALSE

(* ----------------------------- pure merges ----------------------------- *)
\* the figure flag computed from the wrong list
enhance_context_metadata_FigureFlagFromTables(ctx, basic) ==
    [ctx EXCEPT
        !.enhanced = TRUE,
        !.has_tables = Len(basic.tables) > 0,
        !.has_figures = Len(basic.tables) > 0,
        !.has_text_blocks = Len(basic.text_blocks) > 0,
        !.table_count = Len(basic.tables),
        !.figure_count = Len(basic.figures),
        !.text_block_count = Len(basic.text_blocks),
        !.content_summary = [tables |-> basic.tables, figures |-> basic.figures,
                             text_blocks |-> basic.text_blocks]]

\* the summary lists appended to the ones already recorded instead of replacing
\* them
enhance_context_metadata_Accumulates(ctx, basic) ==
    [ctx EXCEPT
        !.enhanced = TRUE,
        !.has_tables = Len(basic.tables) > 0,
        !.has_figures = Len(basic.figures) > 0,
        !.has_text_blocks = Len(basic.text_blocks) > 0,
        !.table_count = Len(basic.tables),
        !.figure_count = Len(basic.figures),
        !.text_block_count = Len(basic.text_blocks),
        !.content_summary = [tables |-> ctx.content_summary.tables \o basic.tables,
                             figures |-> ctx.content_summary.figures \o basic.figures,
                             text_blocks |-> ctx.content_summary.text_blocks
                                                \o basic.text_blocks]]

\* a new dict holding the flags instead of an updated copy of the record: the
\* generated content, table_metadata, image_metadata and content_elements are
\* gone
enhance_context_metadata_NewDict(ctx, basic) ==
    [ctx EXCEPT
        !.enhanced = TRUE,
        !.has_tables = Len(basic.tables) > 0,
        !.has_figures = Len(basic.figures) > 0,
        !.has_text_blocks = Len(basic.text_blocks) > 0,
        !.table_count = Len(basic.tables),
        !.figure_count = Len(basic.figures),
        !.text_block_count = Len(basic.text_blocks),
        !.content_summary = [tables |-> basic.tables, figures |-> basic.figures,
                             text_blocks |-> basic.text_blocks],
        !.doc = "",
        !.table_metadata = <<>>,
        !.image_metadata = <<>>,
        !.has_elements = FALSE,
        !.content_elements = <<>>]

\* enhance_context_metadata: copy of the context record updated with the flags
enhance_context_metadata(ctx, basic) ==
    [ctx EXCEPT
        !.enhanced = TRUE,
        !.has_tables = Len(basic.tables) > 0,
        !.has_figures = Len(basic.figures) > 0,
        !.has_text_blocks = Len(basic.text_blocks) > 0,
        !.table_count = Len(basic.tables),
        !.figure_count = Len(basic.figures),
        !.text_block_count = Len(basic.text_blocks),
        !.content_summary = [tables |-> basic.tables, figures |-> basic.figures,
                             text_blocks |-> basic.text_blocks]]

(* ------------------------- context-window builder ---------------------- *)
MaxWinPages == 3

WinPages == 1..MaxWinPages

\* the files of one page directory that get_page_context reads: the directory,
\* page_<n>_full.png, metadata_page_<n>.json and text/page_<n>_text.txt
NoFiles == [dir |-> FALSE, img |-> FALSE, meta |-> FALSE, text |-> FALSE]

PageFiles ==
    {NoFiles} \cup [dir : {TRUE}, img : BOOLEAN, meta : BOOLEAN, text : BOOLEAN]

\* an optional PageData that is None
NonePageData == [none |-> TRUE]

\* encode_image_to_data_uri(path) of an existing image
DataUri(k) == <<"data:image/png;base64", k>>

\* str(read_json_file(path)): the file's JSON dumped twice
ReadJson(k) == <<"dumps", "dumps", "metadata", k>>

\* read_text_file(path)
ReadText(k) == <<"text", k>>

\* PageData of page k whose directory and image exist
PageDataOf(s, k) ==
    [page_number |-> k,
     image_data_uri |-> DataUri(k),
     metadata_content |-> IF s[k].meta THEN ReadJson(k) ELSE <<"{}">>,
     text_content |-> IF s[k].text THEN ReadText(k) ELSE <<>>]

\* the dummy PageData extract_metadata_with_context puts in place of None
DummyPageData(k) ==
    [page_number |-> k, image_data_uri |-> <<>>, metadata_content |-> <<"{}">>,
     text_content |-> <<>>]

DirExists(s, k) == k \in DOMAIN s /\ s[k].dir

\* the next page taken to be the current one
NextPageNumber_Same(p) == p

\* page_number + 1
NextPageNumber(p) == p + 1

NoWindow == [err |-> "not_called"]

WindowError(type, page) == [err |-> type, page |-> page]

\* get_page_context(page_number, pdf_base_path): the PageContext, or the
\* exception raised. encode_image_to_data_uri opens the image unguarded.
get_page_context(s, p) ==
    IF p < 1 THEN WindowError("ValueError", p)
    ELSE IF ~DirExists(s, p) THEN WindowError("FileNotFoundError: directory", p)
    ELSE IF ~s[p].img THEN WindowError("FileNotFoundError: image", p)
    ELSE IF p > 1 /\ DirExists(s, p - 1) /\ ~s[p - 1].img
    THEN WindowError("FileNotFoundError: image", p - 1)
    ELSE IF DirExists(s, NextPageNumber(p)) /\ ~s[NextPageNumber(p)].img
    THEN WindowError("FileNotFoundError: image", NextPageNumber(p))
    ELSE [err |-> "none",
          current_page |-> PageDataOf(s, p),
          previous_page |-> IF p > 1 /\ DirExists(s, p - 1)
                            THEN PageDataOf(s, p - 1) ELSE NonePageData,
          next_page |-> IF DirExists(s, NextPageNumber(p))
                        THEN PageDataOf(s, NextPageNumber(p)) ELSE NonePageData]

\* the context extract_metadata_with_context goes on with: None neighbours
\* replaced by dummies
WithDummies(w, p) ==
    IF w.err # "none" THEN w
    ELSE [w EXCEPT
            !.previous_page = IF @ = NonePageData THEN DummyPageData(p - 1) ELSE @,
            !.next_page = IF @ = NonePageData THEN DummyPageData(p + 1) ELSE @]

(* ------------------------ sub-element correlation ---------------------- *)
\* Dict values: Absent stands for a key the dict does not have, "" for an empty
\* value (empty string or empty list) of a copied field, AbsentList for a
\* missing keywords or entities key. Identifiers are token sequences: a word, "-", a run
\* of digits, ..., so that figure-1-1x is <<"figure","-","1","-","1","x">>.
Absent == "absent"

AbsentList == <<Absent>>

\* d.get(key, default)
DictGet(v, default) == IF v = Absent THEN default ELSE v

\* d.get(key, []) of a list-valued key
ListGet(v) == IF v = AbsentList THEN <<>> ELSE v

\* truthiness of d.get(key)
Truthy(v) == v \notin {Absent, ""}

DigitRuns == {"1", "2", "3"}

MakeId(kind, page, index) == <<kind, "-", page, "-", index>>

\* re.match(r"(?:figure|image)-(\d+)-(\d+)", element_id): anchored at the start
\* only
re_match(id) ==
    /\ Len(id) >= 5
    /\ id[1] \in {"figure", "image"}
    /\ id[2] = "-"
    /\ id[3] \in DigitRuns
    /\ id[4] = "-"
    /\ id[5] \in DigitRuns

\* possible_image_ids with the figure- spelling tried first
possible_image_ids_FigureFirst(id) ==
    <<MakeId("figure", id[3], id[5]), MakeId("image", id[3], id[5])>>

\* possible_image_ids: the image- spelling, then the figure- spelling
possible_image_ids(id) ==
    <<MakeId("image", id[3], id[5]), MakeId("figure", id[3], id[5])>>

\* image_metadata_map: image_id -> entry, a later entry replacing an earlier one
\* with the same id; an entry without image_id is filed under the empty id
image_metadata_map(image_metadata) ==
    [id \in {image_metadata[i].image_id : i \in DOMAIN image_metadata} |->
        image_metadata[CHOOSE i \in DOMAIN image_metadata :
                          /\ image_metadata[i].image_id = id
                          /\ \A j \in DOMAIN image_metadata :
                                image_metadata[j].image_id = id => j <= i]]

\* the first of possible_image_ids found in the map, <<"none">> when neither is
MatchedId(map, id) ==
    LET ids == SelectSeq(possible_image_ids(id), LAMBDA x : x \in DOMAIN map)
    IN IF ids = <<>> THEN <<"none">> ELSE Head(ids)

\* list(set): the members of S in the iteration order ord
ListOfSet(S, ord) == SelectSeq(ord, LAMBDA k : k \in S)

\* keywords concatenated instead of merged as sets
MergeList_Concat(old, new, ord) == ListGet(old) \o ListGet(new)

\* list(set(element.get(k, [])).union(set(matched.get(k, []))))
MergeList(old, new, ord) == ListOfSet(Range(ListGet(old)) \cup Range(ListGet(new)), ord)

\* the body of the loop after a match was found (lines 72-113)
MergeElement(element, m, ordk, orde) ==
    [element EXCEPT
        !.image_type = DictGet(m.image_type, ""),
        !.natural_description = DictGet(m.natural_description, ""),
        !.title = IF Truthy(m.title) THEN m.title ELSE @,
        !.summary = IF Truthy(m.summary) THEN m.summary ELSE @,
        !.keywords = MergeList(@, m.keywords, ordk),
        !.entities = MergeList(@, m.entities, orde),
        !.dates = IF Truthy(m.dates) THEN m.dates ELSE @,
        !.locations = IF Truthy(m.locations) THEN m.locations ELSE @,
        !.model_name = IF Truthy(m.model_name) THEN m.model_name ELSE @,
        !.component_type = IF Truthy(m.component_type) THEN m.component_type ELSE @,
        !.model_applicability =
            IF Truthy(m.model_applicability) THEN m.model_applicability ELSE @,
        !.application_context =
            IF Truthy(m.application_context) THEN m.application_context ELSE @,
        !.related_tables = IF Truthy(m.related_tables) THEN m.related_tables ELSE @]

\* an element that is merged whatever its type
ElementMatches_AnyType(element, map) ==
    /\ re_match(element.element_id)
    /\ MatchedId(map, element.element_id) # <<"none">>

\* the three `continue` tests of the loop: type, pattern, lookup
ElementMatches(element, map) ==
    /\ element.type = "figure"
    /\ re_match(element.element_id)
    /\ MatchedId(map, element.element_id) # <<"none">>

\* one iteration of `for element in context_metadata["content_elements"]`
EnhanceElement(element, map, ordk, orde) ==
    IF ElementMatches(element, map)
    THEN MergeElement(element, map[MatchedId(map, element.element_id)], ordk, orde)
    ELSE element

\* enhance_content_elements_with_image_metadata
enhance_content_elements_with_image_metadata(c, ordk, orde) ==
    IF "image_metadata" \notin c.keys \/ c.image_metadata = <<>> THEN c
    ELSE IF "content_elements" \notin c.keys THEN c
    ELSE [c EXCEPT !.content_elements =
             [i \in DOMAIN c.content_elements |->
                 EnhanceElement(c.content_elements[i],
                                image_metadata_map(c.image_metadata), ordk, orde)]]

\* a context_metadata dict: keys holds which of the two list keys it has
NoCm == [keys |-> {}, image_metadata |-> <<>>, content_elements |-> <<>>]

Keywords == {"a", "b", "c"}

Entities == {"x", "y"}

\* the orders a set of keywords (entities) can be listed in
Orders(S) == {o \in [1..Cardinality(S) -> S] : Range(o) = S}

ImageIds == {MakeId("image", "1", "1"), MakeId("figure", "1", "1"),
             MakeId("image", "1", "2"), <<>>}

\* image_metadata entries: every field supplied, every field supplied empty, no
\* field but image_id, and title and image_type only. The image_type tells the
\* image- spelling from the figure- spelling.
ImageEntryOf(id, profile) ==
    LET full == profile = "full"
        some == profile \in {"full", "partial"}
        V(v) == IF full THEN v ELSE IF profile = "empty" THEN "" ELSE Absent
    IN [image_id |-> id,
        image_type |-> IF some
                       THEN (IF id # <<>> /\ id[1] = "figure" THEN "diagram" ELSE "photo")
                       ELSE V(""),
        natural_description |-> V("m_description"),
        title |-> IF some THEN "m_title" ELSE V(""),
        summary |-> V("m_summary"),
        keywords |-> IF full THEN <<"b", "c">>
                     ELSE IF profile = "empty" THEN <<>> ELSE AbsentList,
        entities |-> IF full THEN <<"y">>
                     ELSE IF profile = "empty" THEN <<>> ELSE AbsentList,
        dates |-> V("m_dates"),
        locations |-> V("m_locations"),
        model_name |-> V("m_model_name"),
        component_type |-> V("m_component_type"),
        model_applicability |-> V("m_model_applicability"),
        application_context |-> V("m_application_context"),
        related_tables |-> V("m_related_tables")]

ImageEntries ==
    {ImageEntryOf(id, pr) : id \in ImageIds, pr \in {"full", "empty", "missing", "partial"}}

ElementIds == {MakeId("figure", "1", "1"), MakeId("image", "1", "1"),
               MakeId("figure", "1", "1") \o <<"x">>, MakeId("figure", "1", "3"),
               <<"fig", "-", "1">>, <<>>}

\* content elements: every field filled, no field but type and element_id, and
\* a once-merged element with a repeated keyword
ElementOf(type, id, profile) ==
    LET full == profile = "full"
        V(v) == IF full THEN v ELSE Absent
    IN [type |-> type,
        element_id |-> id,
        image_type |-> IF profile = "bare" THEN Absent ELSE "e_image_type",
        natural_description |-> IF profile = "bare" THEN Absent ELSE "e_description",
        title |-> V("e_title"),
        summary |-> V("e_summary"),
        keywords |-> IF full THEN <<"a", "b">>
                     ELSE IF profile = "bare" THEN AbsentList ELSE <<"a", "a">>,
        entities |-> IF full THEN <<"x">> ELSE AbsentList,
        dates |-> V("e_dates"),
        locations |-> V("e_locations"),
        model_name |-> V("e_model_name"),
        component_type |-> V("e_component_type"),
        model_applicability |-> V("e_model_applicability"),
        application_context |-> V("e_application_context"),
        related_tables |-> V("e_related_tables")]

Elements ==
    {ElementOf(t, id, pr) : t \in {"figure", "table", Absent}, id \in ElementIds,
                            pr \in {"full", "bare", "merged"}}

\* the content_elements the model wrote into a generated document: doc1 lists
\* one figure, named figure-1-1 and carrying no other field; doc2 has no
\* content_elements key
DocHasElements(doc) == doc = "doc1"

DocElements(doc) ==
    IF DocHasElements(doc) THEN <<ElementOf("figure", MakeId("figure", "1", "1"), "bare")>>
    ELSE <<>>

\* a freshly generated context record: the parsed model output `doc` with its
\* content_elements, not yet enhanced (no flag keys), no table_metadata key and
\* no image_metadata key
FreshCtx(doc) ==
    [exists |-> TRUE, doc |-> doc, enhanced |-> FALSE,
     has_tables |-> FALSE, has_figures |-> FALSE, has_text_blocks |-> FALSE,
     table_count |-> 0, figure_count |-> 0, text_block_count |-> 0,
     content_summary |-> [tables |-> <<>>, figures |-> <<>>, text_blocks |-> <<>>],
     table_metadata |-> <<>>,
     image_metadata |-> <<>>,
     has_elements |-> DocHasElements(doc),
     content_elements |-> DocElements(doc)]

\* the entry process_all_tables appends for table k of page p; html is the text
\* read from the table's HTML file
TableEntry(p, k, html) ==
    [table_id |-> TableId(p, k),
     table_file |-> TableFile(p, k),
     table_image |-> TableImage(p, k),
     table_html |-> html]

\* table_metadata_list for the tables of page p whose generation succeeded
RECURSIVE TableMetadataList(_, _, _, _, _)
TableMetadataList(p, k, n, ok, html) ==
    IF k > n THEN <<>>
    ELSE (IF k \in ok THEN <<TableEntry(p, k, html[k])>> ELSE <<>>)
             \o TableMetadataList(p, k + 1, n, ok, html)

\* page states an earlier execution can have left behind
FullLayout == [tables |-> MaxTables, figures |-> 1, texts |-> 2]

ProcessedCtx(p) ==
    [enhance_context_metadata(FreshCtx("doc1"), BasicMetadata(p, FullLayout))
        EXCEPT !.table_metadata =
                   TableMetadataList(p, 1, MaxTables, 1..MaxTables,
                                     [k \in 1..MaxTables |-> TableHtml(p, k)])]

InitPageStates(p) ==
    {NoPage,
     EmptyPageDir,
     ExtractedPage(NoPage, p, FullLayout),
     [ExtractedPage(NoPage, p, FullLayout) EXCEPT !.ctx = FreshCtx("doc1")],
     [ExtractedPage(NoPage, p, FullLayout) EXCEPT !.ctx = ProcessedCtx(p)]}

InitStores == {s \in [Pages -> UNION {InitPageStates(p) : p \in Pages}] :
                  \A p \in Pages : s[p] \in InitPageStates(p)}

(* ------------------------------- state --------------------------------- *)
VARIABLES
    config,        \* the PipelineConfig handed to the processor and the steps
    base_exists,   \* config.pdf_base_path (output_dir/<pdf stem>) exists
    store,         \* page number -> artifacts under page_<n>/
    results,       \* PDFProcessor.results: step name -> result dict
    pc,            \* "idle", "loop" (PDFProcessor.run between steps), or the running step
    arg,           \* the `steps` argument of the latest run() call
    steps_to_run,  \* local of run()
    idx,           \* position of the for loop of run() in steps_to_run
    st,            \* locals of the step function running (or run last)
    probe,         \* what the latest per-page iteration of a step did
    outcome,       \* how the latest run() call ended
    invoked,       \* the step functions called by the latest run(), in order
    raised,        \* positions of steps_to_run whose step function raised, with the message
    ledger,        \* cost_tracker of PDFProcessor.llm_client
    own_ledger,    \* cost_tracker of the client process_all_tables creates
    returned,      \* number of model-service calls that returned since construction
    has_valid_config, \* LitellmClient._has_valid_config(): the environment holds credentials
    run_limit,     \* number of run() calls the caller makes on the processor
    direct_limit,  \* number of step functions the caller calls outside run()
    reset_limit,   \* number of reset_cost_tracking() calls the caller makes
    resets,        \* number of reset_cost_tracking() calls made on the processor's client
    direct,        \* number of step functions the caller has called outside run()
    step_result,   \* what the latest step function called outside run() returned
    cm,            \* the context_metadata dict handed to sub-element correlation
    cm_prev,       \* that dict as it was before the latest correlation
    applied,       \* number of correlations applied to cm
    wstore,        \* page number -> files under page_<n>/ that get_page_context reads
    wpage,         \* the page_number argument of get_page_context
    window,        \* what the latest get_page_context call returned or raised
    tracker,       \* a CostTracker used on its own
    tracker_prev,  \* that tracker as it was before the latest operation on it
    tracker_op,    \* the latest operation on it, and whether its cost computation succeeded
    runs           \* number of run() calls made

\* the cost trackers and the calls they are fed by
cost == <<ledger, own_ledger, returned, resets>>

\* what the caller and the environment fix for the processor's lifetime
env == <<has_valid_config, run_limit, direct_limit, reset_limit>>

\* step functions called directly, with the processor's client
dcall == <<direct, step_result>>

\* the state of the pipeline run
pipeline ==
    <<config, base_exists, store, results, pc, arg, steps_to_run, idx, st, probe,
      outcome, invoked, raised, runs, cost, env, dcall>>

\* the state of sub-element correlation called outside a pipeline run
corr == <<cm, cm_prev, applied>>

\* the state of the context-window builder called outside a pipeline run
win == <<wstore, wpage, window>>

\* the state of a cost tracker used outside a pipeline run
trk == <<tracker, tracker_prev, tracker_op>>

aux == <<corr, win, trk>>

vars == <<pipeline, aux>>

NoResult == [status |-> "none"]

ErrorResult(msg) == [status |-> "error", error |-> msg]

MsgNoOcrOutput == "OCR output not found. Run OCR step first."
MsgNoMaxPages == "'PipelineConfig' object has no attribute 'max_pages'"
MsgOcrService == "docling conversion failed"
MsgRender == "page rendering failed"

\* the result of the step function that ran last: an entry of self.results
\* for a step run() called, the returned dict for a step called directly
LastResult == IF st.stage \in Range(AllSteps) THEN results[st.stage] ELSE step_result

NoStage ==
    [stage |-> "none", prev |-> "none", prev_status |-> "none", done |-> TRUE,
     planned |-> <<>>, todo |-> <<>>,
     ok |-> 0, failed |-> 0, skipped |-> 0, calls |-> 0, writes |-> 0,
     attempted |-> {}, failedPages |-> {}]

\* locals of a step function at its start; prev names the step function that
\* ran before it and prev_status the status that one reported; planned is the
\* list the page loop starts with
NewStage(name, todo, skipped) ==
    [NoStage EXCEPT !.stage = name, !.prev = st.stage,
                    !.prev_status = IF st.stage = "none" THEN "none"
                                    ELSE LastResult.status,
                    !.done = FALSE, !.planned = todo, !.todo = todo,
                    !.skipped = skipped]

\* CostTracker.__init__
NewLedger ==
    [total_cost |-> 0, total_prompt_tokens |-> 0, total_completion_tokens |-> 0,
     total_tokens |-> 0, call_count |-> 0, cost_breakdown |-> <<>>]

\* usage.get(k, 0) on the usage dict of a response; keys is the set of keys the
\* dict has
UsageGet(usage, k) == IF k \in usage.keys THEN usage[k] ELSE 0

\* a tracker that counts a call whose cost computation raised
add_call_CountsFailures(l, response, model_name, call_type) ==
    IF ~response.cost_ok
    THEN [l EXCEPT !.call_count = @ + 1]
    ELSE [total_cost |-> l.total_cost + response.cost,
          total_prompt_tokens |-> l.total_prompt_tokens + UsageGet(response.usage, "prompt_tokens"),
          total_completion_tokens |->
              l.total_completion_tokens + UsageGet(response.usage, "completion_tokens"),
          total_tokens |-> l.total_tokens + UsageGet(response.usage, "total_tokens"),
          call_count |-> l.call_count + 1,
          cost_breakdown |->
              Append(l.cost_breakdown,
                     [call_type |-> call_type, model |-> model_name, cost |-> response.cost,
                      prompt_tokens |-> UsageGet(response.usage, "prompt_tokens"),
                      completion_tokens |-> UsageGet(response.usage, "completion_tokens"),
                      total_tokens |-> UsageGet(response.usage, "total_tokens")])]

\* CostTracker.add_call: completion_cost(response) is computed first; when it
\* raises, the exception is swallowed and nothing is recorded; otherwise the
\* totals and the counter are updated and the breakdown entry is appended
add_call(l, response, model_name, call_type) ==
    IF ~response.cost_ok
    THEN l
    ELSE LET call_cost == response.cost
             usage == response.usage
             prompt_tokens == UsageGet(usage, "prompt_tokens")
             completion_tokens == UsageGet(usage, "completion_tokens")
             total_tokens == UsageGet(usage, "total_tokens")
         IN [total_cost |-> l.total_cost + call_cost,
             total_prompt_tokens |-> l.total_prompt_tokens + prompt_tokens,
             total_completion_tokens |-> l.total_completion_tokens + completion_tokens,
             total_tokens |-> l.total_tokens + total_tokens,
             call_count |-> l.call_count + 1,
             cost_breakdown |->
                 Append(l.cost_breakdown,
                        [call_type |-> call_type, model |-> model_name, cost |-> call_cost,
                         prompt_tokens |-> prompt_tokens,
                         completion_tokens |-> completion_tokens,
                         total_tokens |-> total_tokens])]

\* CostTracker.reset
reset(l) == NewLedger

\* the response of a model call made by a stage: one prompt token, one
\* completion token; cost_ok tells whether completion_cost can price it
StageResponse(cost_ok) ==
    [cost_ok |-> cost_ok, cost |-> 1,
     usage |-> [keys |-> {"prompt_tokens", "completion_tokens", "total_tokens"},
                prompt_tokens |-> 1, completion_tokens |-> 1, total_tokens |-> 2]]

\* the model name process_all_tables gives its own client
TableModelName == "openai/gpt-4o"

\* add_call applied n times
RECURSIVE add_calls(_, _, _, _)
add_calls(l, model_name, call_type, n) ==
    IF n = 0 THEN l
    ELSE add_calls(add_call(l, StageResponse(TRUE), model_name, call_type),
                   model_name, call_type, n - 1)

\* sub-element correlation has been handed nothing
CorrIdle ==
    /\ cm = NoCm
    /\ cm_prev = NoCm
    /\ applied = 0

\* the context-window builder has not been called
WinIdle ==
    /\ wstore = [p \in WinPages |-> NoFiles]
    /\ wpage = 0
    /\ window = NoWindow

\* no cost tracker is used on its own
TrkIdle ==
    /\ tracker = NewLedger
    /\ tracker_prev = NewLedger
    /\ tracker_op = [op |-> "none"]

AuxIdle == CorrIdle /\ WinIdle /\ TrkIdle

NoProbe == [stage |-> "none", page |-> 0, outcome |-> <<>>, wrote |-> FALSE, counted |-> "none"]

\* number of direct step-function calls the caller makes
MaxDirectCalls == 1

\* the processors whose caller also calls step functions directly: both skip
\* flags set, over an output directory that is absent, empty, fully processed,
\* or holds page 1 fully processed and the later pages extracted
DirectStores ==
    {[p \in Pages |-> NoPage],
     [p \in Pages |-> [ExtractedPage(NoPage, p, FullLayout) EXCEPT !.ctx = ProcessedCtx(p)]],
     [p \in Pages |-> IF p = 1
                      THEN [ExtractedPage(NoPage, p, FullLayout) EXCEPT !.ctx = ProcessedCtx(p)]
                      ELSE ExtractedPage(NoPage, p, FullLayout)]}

DirectScenario(c, s) ==
    /\ c.skip_ocr_if_exists
    /\ c.skip_metadata_if_exists
    /\ s \in DirectStores

\* number of reset_cost_tracking() calls the caller makes
MaxResets == 1

\* the processors whose caller also resets the cost tracking: both skip flags
\* set and a model name, over an output directory that is fully processed or
\* holds page 1 fully processed and the later pages extracted
ResetScenario(c, s) ==
    /\ DirectScenario(c, s)
    /\ c.model_name # NoneVal
    /\ \E p \in Pages : s[p].dir

Init ==
    /\ config \in Configs
    /\ store \in InitStores
    /\ base_exists \in (IF HasPageDirs(store) THEN {TRUE} ELSE BOOLEAN)
    /\ has_valid_config \in BOOLEAN
    /\ run_limit = MaxRuns
    /\ \E lim \in {<<0, 0>>}
                     \cup (IF DirectScenario(config, store) THEN {<<MaxDirectCalls, 0>>} ELSE {})
                     \cup (IF ResetScenario(config, store) THEN {<<0, MaxResets>>} ELSE {}) :
          /\ direct_limit = lim[1]
          /\ reset_limit = lim[2]
    /\ results = [s \in Range(AllSteps) |-> NoResult]
    /\ pc = "new"
    /\ arg = [none |-> TRUE, list |-> <<>>]
    /\ steps_to_run = <<>>
    /\ idx = 1
    /\ st = NoStage
    /\ probe = NoProbe
    /\ outcome = [kind |-> "none"]
    /\ invoked = <<>>
    /\ raised = {}
    /\ runs = 0
    /\ direct = 0
    /\ step_result = NoResult
    /\ ledger = NewLedger
    /\ own_ledger = NewLedger
    /\ returned = 0
    /\ resets = 0
    /\ AuxIdle

(* -------------------------- PDFProcessor.__init__ ----------------------- *)
\* LitellmClient.__init__: only the credentials are checked; model_name may be
\* None ("you must pass model_name in chat()")
ClientConfigValid(model_name) == has_valid_config

\* PDFProcessor(config): the client is created first; LitellmConfigError leaves
\* the constructor and no processor exists
Construct ==
    /\ pc = "new"
    /\ IF ClientConfigValid(config.model_name)
       THEN /\ pc' = "idle"
            /\ UNCHANGED outcome
       ELSE /\ pc' = "init_failed"
            /\ outcome' = [kind |-> "LitellmConfigError"]
    /\ UNCHANGED <<config, base_exists, store, results, arg, steps_to_run, idx, st,
                   probe, invoked, raised, runs>>
    /\ UNCHANGED <<aux, cost, env, dcall>>

(* ---------------------------- PDFProcessor.run -------------------------- *)
\* a validation that looks at the first name only
InvalidSteps_FirstOnly(steps) ==
    SelectSeq(SubSeq(steps, 1, Min(1, Len(steps))), LAMBDA s : s \notin Range(AllSteps))

\* invalid_steps = [s for s in steps if s not in all_steps]
InvalidSteps(steps) == SelectSeq(steps, LAMBDA s : s \notin Range(AllSteps))

\* steps_to_run: list(all_steps.keys()) when steps is None, else steps as given
StepsToRun(a) == IF a.none THEN AllSteps ELSE a.list

\* run(), up to the for loop: validation of the step names
Run(a) ==
    /\ pc = "idle"
    /\ runs < run_limit
    /\ runs' = runs + 1
    /\ arg' = a
    /\ invoked' = <<>>
    /\ raised' = {}
    /\ IF ~a.none /\ InvalidSteps(a.list) # <<>>
       THEN /\ outcome' = [kind |-> "ValueError",
                           invalid_steps |-> InvalidSteps(a.list),
                           valid_steps |-> AllSteps]
            /\ UNCHANGED <<pc, steps_to_run, idx>>
       ELSE /\ steps_to_run' = StepsToRun(a)
            /\ idx' = 1
            /\ pc' = "loop"
            /\ outcome' = [kind |-> "running"]
    /\ UNCHANGED <<config, base_exists, store, results, st, probe>>
    /\ UNCHANGED <<aux, cost, env, dcall>>

\* the step function returned `res`: self.results[step_name] = result
StepReturned(name, res) ==
    /\ results' = [results EXCEPT ![name] = res]
    /\ idx' = idx + 1
    /\ pc' = "loop"
    /\ UNCHANGED <<raised, outcome>>

\* a run() without the try/except: the exception leaves run()
StepRaised_Propagates(name, msg) ==
    /\ raised' = raised \cup {[pos |-> idx, msg |-> msg]}
    /\ pc' = "idle"
    /\ outcome' = [kind |-> "raised", msg |-> msg]
    /\ UNCHANGED <<results, idx>>

\* the step function raised: the except clause of run() records the error
StepRaised(name, msg) ==
    /\ results' = [results EXCEPT ![name] = ErrorResult(msg)]
    /\ raised' = raised \cup {[pos |-> idx, msg |-> msg]}
    /\ idx' = idx + 1
    /\ pc' = "loop"
    /\ UNCHANGED outcome

AtStep(name) ==
    /\ pc = "loop"
    /\ idx <= Len(steps_to_run)
    /\ steps_to_run[idx] = name

\* the for loop is exhausted: run() returns self.results; a name that is not a
\* key of all_steps makes all_steps[step_name] raise KeyError out of run()
RunExit ==
    /\ pc = "loop"
    /\ IF idx > Len(steps_to_run) THEN TRUE ELSE steps_to_run[idx] \notin Range(AllSteps)
    /\ pc' = "idle"
    /\ outcome' = IF idx > Len(steps_to_run)
                  THEN [kind |-> "returned"]
                  ELSE [kind |-> "KeyError", key |-> steps_to_run[idx]]
    /\ UNCHANGED <<config, base_exists, store, results, arg, steps_to_run, idx, st,
                   probe, invoked, raised, runs>>
    /\ UNCHANGED <<aux, cost, env, dcall>>

(* ------------------------------ run_ocr_step ---------------------------- *)
OcrOutcomes ==
    {[kind |-> "ocr_error"], [kind |-> "render_error"]}
        \cup {[kind |-> "ok", layout |-> l] : l \in Layouts}

\* the skip test of run_ocr_step
OcrSkips == config.skip_ocr_if_exists /\ base_exists /\ HasPageDirs(store)

OcrSkippedResult == [status |-> "skipped", message |-> "OCR output already exists"]

OcrStart ==
    /\ AtStep("ocr")
    /\ invoked' = Append(invoked, "ocr")
    /\ probe' = NoProbe
    /\ IF OcrSkips
       THEN /\ st' = [NewStage("ocr", <<>>, 0) EXCEPT !.done = TRUE]
            /\ StepReturned("ocr", OcrSkippedResult)
       ELSE /\ st' = NewStage("ocr", RangeSeq(1, NumPages), 0)
            /\ pc' = "ocr"
            /\ UNCHANGED <<results, idx, raised, outcome>>
    /\ UNCHANGED <<config, base_exists, store, arg, steps_to_run, runs>>
    /\ UNCHANGED <<aux, cost, env, dcall>>

\* one iteration of the page loop of export_figures_tables_and_text; an
\* exception leaves the loop and is turned into an error result by run_ocr_step
OcrPage ==
    /\ pc = "ocr"
    /\ st.todo # <<>>
    /\ LET p == Head(st.todo) IN
       \E o \in OcrOutcomes :
          /\ probe' = [stage |-> "ocr", page |-> p, outcome |-> o,
                       wrote |-> (o.kind = "ok"),
                       counted |-> IF o.kind = "ok" THEN "ok" ELSE "failed"]
          /\ IF o.kind = "ok"
             THEN /\ store' = [store EXCEPT ![p] = ExtractedPage(store[p], p, o.layout)]
                  /\ base_exists' = TRUE
                  /\ st' = [st EXCEPT !.todo = Tail(st.todo), !.ok = st.ok + 1,
                                      !.attempted = st.attempted \cup {p}]
                  /\ UNCHANGED <<results, idx, pc, raised, outcome>>
             ELSE /\ store' = IF o.kind = "render_error"
                              THEN [store EXCEPT ![p].dir = TRUE]
                              ELSE store
                  /\ base_exists' = IF o.kind = "render_error" THEN TRUE ELSE base_exists
                  /\ st' = [st EXCEPT !.done = TRUE, !.failed = st.failed + 1,
                                      !.attempted = st.attempted \cup {p},
                                      !.failedPages = st.failedPages \cup {p}]
                  /\ StepReturned("ocr", ErrorResult(IF o.kind = "render_error"
                                                     THEN MsgRender ELSE MsgOcrService))
    /\ UNCHANGED <<config, arg, steps_to_run, invoked, runs>>
    /\ UNCHANGED <<aux, cost, env, dcall>>

\* after the loop: page_count = len(list(pdf_base_path.glob("page_*")))
OcrFinish ==
    /\ pc = "ocr"
    /\ st.todo = <<>>
    /\ st' = [st EXCEPT !.done = TRUE]
    /\ probe' = NoProbe
    /\ StepReturned("ocr", [status |-> "success", pages_processed |-> CountPageDirs(store)])
    /\ UNCHANGED <<config, base_exists, store, arg, steps_to_run, invoked, runs>>
    /\ UNCHANGED <<aux, cost, env, dcall>>

(* ---------------------------- run_context_step -------------------------- *)
\* get_page_context: "none" when the window is built, else the exception.  Only
\* the current page's directory is required, but encode_image_to_data_uri is
\* called unguarded on the image of the current page and of every neighbour
\* whose directory exists.
get_page_context_error(s, p) ==
    IF p < 1 THEN "ValueError"
    ELSE IF ~s[p].dir THEN "FileNotFoundError"
    ELSE IF ~s[p].img THEN "FileNotFoundError"
    ELSE IF p > 1 /\ s[p - 1].dir /\ ~s[p - 1].img THEN "FileNotFoundError"
    ELSE IF (p + 1) \in Pages /\ s[p + 1].dir /\ ~s[p + 1].img THEN "FileNotFoundError"
    ELSE "none"

\* save_context_metadata when the module is run as a script: a missing page directory
\* and a parse failure raise before the file is opened for writing
save_context_metadata_bound(s, p, content) ==
    IF ~s[p].dir THEN [err |-> "FileNotFoundError", store |-> s]
    ELSE IF ~JsonLoadsOk(CleanJsonStr(content)) THEN [err |-> "JSONDecodeError", store |-> s]
    ELSE [err |-> "none",
          store |-> [s EXCEPT ![p].ctx = FreshCtx(JsonLoads(CleanJsonStr(content)))]]

\* save_context_metadata as the pipeline calls it: json.loads is evaluated with
\* the name json unbound
save_context_metadata(s, p, content) ==
    IF ~s[p].dir THEN [err |-> "FileNotFoundError", store |-> s]
    ELSE IF ~JsonBoundOnImport THEN [err |-> "NameError", store |-> s]
    ELSE save_context_metadata_bound(s, p, content)

\* extract_and_save_context_metadata(page) with the service answering `o`
extract_and_save_context_metadata(s, p, o) ==
    IF get_page_context_error(s, p) # "none"
    THEN [err |-> get_page_context_error(s, p), called |-> FALSE, store |-> s]
    ELSE IF config.model_name = NoneVal
    THEN [err |-> "LitellmConfigError", called |-> FALSE, store |-> s]
    ELSE IF o = ServiceError
    THEN [err |-> "ServiceError", called |-> TRUE, store |-> s]
    ELSE [err |-> save_context_metadata(s, p, o).err, called |-> TRUE,
          store |-> save_context_metadata(s, p, o).store]

\* pages_to_check
PagesToCheck ==
    IF config.max_pages.kind = CapVal THEN Min(config.max_pages.cap, NumPages) ELSE NumPages

\* a page counted in pages_with_metadata
HasContextAndSkip(p) == store[p].ctx.exists /\ config.skip_metadata_if_exists

PagesWithMetadata == Cardinality({p \in 1..PagesToCheck : HasContextAndSkip(p)})

PagesToProcess == SelectSeq(RangeSeq(1, PagesToCheck), LAMBDA p : ~HasContextAndSkip(p))

ContextSkippedResult ==
    [status |-> "skipped", message |-> "All pages already have context metadata",
     pages_processed |-> NumPages]

ContextStart ==
    /\ AtStep("context")
    /\ invoked' = Append(invoked, "context")
    /\ probe' = NoProbe
    /\ IF ~base_exists
       THEN /\ st' = [NewStage("context", <<>>, 0) EXCEPT !.done = TRUE]
            /\ StepReturned("context", ErrorResult(MsgNoOcrOutput))
       ELSE IF config.max_pages.kind = NoAttr
       THEN /\ st' = [NewStage("context", <<>>, 0) EXCEPT !.done = TRUE]
            /\ StepRaised("context", MsgNoMaxPages)
       ELSE IF PagesToProcess = <<>>
       THEN /\ st' = [NewStage("context", <<>>, PagesWithMetadata) EXCEPT !.done = TRUE]
            /\ StepReturned("context", ContextSkippedResult)
       ELSE /\ st' = NewStage("context", PagesToProcess, PagesWithMetadata)
            /\ pc' = "context"
            /\ UNCHANGED <<results, idx, raised, outcome>>
    /\ UNCHANGED <<config, base_exists, store, arg, steps_to_run, runs>>
    /\ UNCHANGED <<aux, cost, env, dcall>>

\* a page loop without the try/except: the first failing page ends the loop
ContextTodoAfter_StopsAtFailure(todo, err) == IF err = "none" THEN Tail(todo) ELSE <<>>

\* the try/except inside the page loop: whatever the page raised, the loop goes
\* on with the next page
ContextTodoAfter(todo, err) == Tail(todo)

\* one iteration of `for page_num in pages_to_process` with its try/except
ContextPage ==
    /\ pc = "context"
    /\ st.todo # <<>>
    /\ LET p == Head(st.todo) IN
       \E o \in ServiceOutcomes :
          LET r == extract_and_save_context_metadata(store, p, o) IN
          /\ store' = r.store
          /\ returned' = IF r.called /\ o # ServiceError THEN returned + 1 ELSE returned
          /\ \E cost_ok \in BOOLEAN :
                ledger' = IF r.called /\ o # ServiceError
                          THEN add_call(ledger, StageResponse(cost_ok), config.model_name, "chat")
                          ELSE ledger
          /\ probe' = [stage |-> "context", page |-> p,
                       outcome |-> IF r.called THEN o ELSE <<"no_call">>,
                       wrote |-> (r.store # store),
                       counted |-> IF r.err = "none" THEN "ok" ELSE "failed"]
          /\ st' = [st EXCEPT !.todo = ContextTodoAfter(st.todo, r.err),
                              !.ok = IF r.err = "none" THEN st.ok + 1 ELSE st.ok,
                              !.failed = IF r.err = "none" THEN st.failed ELSE st.failed + 1,
                              !.calls = IF r.called THEN st.calls + 1 ELSE st.calls,
                              !.writes = IF r.store # store THEN st.writes + 1 ELSE st.writes,
                              !.attempted = st.attempted \cup {p},
                              !.failedPages = IF r.err = "none" THEN st.failedPages
                                              ELSE st.failedPages \cup {p}]
    /\ UNCHANGED <<config, base_exists, results, pc, arg, steps_to_run, idx, outcome,
                   invoked, raised, runs, own_ledger, resets>>
    /\ UNCHANGED <<aux, env, dcall>>

ContextFinish ==
    /\ pc = "context"
    /\ st.todo = <<>>
    /\ st' = [st EXCEPT !.done = TRUE]
    /\ probe' = NoProbe
    /\ StepReturned("context",
                    [status |-> "success", pages_processed |-> st.ok,
                     pages_failed |-> st.failed, pages_skipped |-> st.skipped,
                     total_pages |-> NumPages])
    /\ UNCHANGED <<config, base_exists, store, arg, steps_to_run, invoked, runs>>
    /\ UNCHANGED <<aux, cost, env, dcall>>

(* ---------------------------- run_enhance_step -------------------------- *)
EnhanceStart ==
    /\ AtStep("enhance")
    /\ invoked' = Append(invoked, "enhance")
    /\ probe' = NoProbe
    /\ IF ~base_exists
       THEN /\ st' = [NewStage("enhance", <<>>, 0) EXCEPT !.done = TRUE]
            /\ StepReturned("enhance", ErrorResult(MsgNoOcrOutput))
       ELSE /\ st' = NewStage("enhance", RangeSeq(1, NumPages), 0)
            /\ pc' = "enhance"
            /\ UNCHANGED <<results, idx, raised, outcome>>
    /\ UNCHANGED <<config, base_exists, store, arg, steps_to_run, runs>>
    /\ UNCHANGED <<aux, cost, env, dcall>>

\* the page is enhanced only when its directory and both metadata files exist
CanEnhance(s, p) == s[p].dir /\ s[p].ctx.exists /\ s[p].basic.exists

\* enhance_context_metadata_file with output_path None: the result overwrites the
\* context metadata file
enhance_context_metadata_file(s, p) ==
    [s EXCEPT ![p].ctx = enhance_context_metadata(s[p].ctx, s[p].basic)]

\* one iteration of `for page_num in range(1, total_pages + 1)`
EnhancePage ==
    /\ pc = "enhance"
    /\ st.todo # <<>>
    /\ LET p == Head(st.todo) IN
       /\ store' = IF CanEnhance(store, p) THEN enhance_context_metadata_file(store, p) ELSE store
       /\ probe' = [stage |-> "enhance", page |-> p, outcome |-> <<>>,
                    wrote |-> CanEnhance(store, p),
                    counted |-> IF CanEnhance(store, p) THEN "ok" ELSE "skipped"]
       /\ st' = [st EXCEPT !.todo = Tail(st.todo),
                           !.ok = IF CanEnhance(store, p) THEN st.ok + 1 ELSE st.ok,
                           !.skipped = IF CanEnhance(store, p) THEN st.skipped ELSE st.skipped + 1,
                           !.writes = IF CanEnhance(store, p) THEN st.writes + 1 ELSE st.writes,
                           !.attempted = st.attempted \cup {p}]
    /\ UNCHANGED <<config, base_exists, results, pc, arg, steps_to_run, idx, outcome,
                   invoked, raised, runs>>
    /\ UNCHANGED <<aux, cost, env, dcall>>

EnhanceFinish ==
    /\ pc = "enhance"
    /\ st.todo = <<>>
    /\ st' = [st EXCEPT !.done = TRUE]
    /\ probe' = NoProbe
    /\ StepReturned("enhance",
                    [status |-> "success", pages_enhanced |-> st.ok,
                     pages_skipped |-> st.skipped, pages_failed |-> st.failed,
                     total_pages |-> NumPages])
    /\ UNCHANGED <<config, base_exists, store, arg, steps_to_run, invoked, runs>>
    /\ UNCHANGED <<aux, cost, env, dcall>>

(* ----------------------------- run_table_step --------------------------- *)
\* page_dirs of process_all_tables: the sorted page directories, cut to the first
\* max_pages of them
TablePageDirs ==
    IF config.max_pages.kind = CapVal
    THEN SubSeq(PageDirs(store), 1, Min(config.max_pages.cap, Len(PageDirs(store))))
    ELSE PageDirs(store)

\* a table loop that takes every page with a context record
HasTablesFlag_AnyRecord(ctx) == ctx.exists

\* context_metadata.get("has_tables", False)
HasTablesFlag(ctx) == ctx.exists /\ ctx.enhanced /\ ctx.has_tables

\* the page passes every `continue` of process_all_tables
TablesProcessed(s, p) ==
    s[p].ctx.exists /\ s[p].basic.exists /\ HasTablesFlag(s[p].ctx) /\ s[p].ntables > 0

\* a table loop that extends the list an earlier execution left on the record
attach_table_metadata_Extends(s, p, ok) ==
    IF ok = {} THEN s
    ELSE [s EXCEPT ![p].ctx.table_metadata =
                       @ \o TableMetadataList(p, 1, s[p].ntables, ok, s[p].html)]

\* the context record after the table loop of one page: the list replaces the
\* table_metadata key when it is non-empty; nothing is written when it is empty
attach_table_metadata(s, p, ok) ==
    IF ok = {} THEN s
    ELSE [s EXCEPT ![p].ctx.table_metadata =
                       TableMetadataList(p, 1, s[p].ntables, ok, s[p].html)]

TableStart ==
    /\ AtStep("table")
    /\ invoked' = Append(invoked, "table")
    /\ probe' = NoProbe
    /\ IF ~base_exists
       THEN /\ st' = [NewStage("table", <<>>, 0) EXCEPT !.done = TRUE]
            /\ StepReturned("table", ErrorResult(MsgNoOcrOutput))
       ELSE IF config.max_pages.kind = NoAttr
       THEN /\ st' = [NewStage("table", <<>>, 0) EXCEPT !.done = TRUE]
            /\ StepReturned("table", ErrorResult(MsgNoMaxPages))
       ELSE /\ st' = NewStage("table", TablePageDirs, 0)
            /\ pc' = "table"
            /\ UNCHANGED <<results, idx, raised, outcome>>
    /\ own_ledger' = IF base_exists /\ config.max_pages.kind # NoAttr
                     THEN NewLedger ELSE own_ledger
    /\ UNCHANGED <<config, base_exists, store, arg, steps_to_run, runs, ledger, returned, resets>>
    /\ UNCHANGED <<aux, env, dcall>>

\* one iteration of `for page_dir in page_dirs`: `ok` is the set of tables of the
\* page whose generate_table_metadata call returned parseable JSON, nret the
\* number of tables whose model call returned (parseable or not) and ncost the
\* number of those whose cost add_call could compute
TablePage ==
    /\ pc = "table"
    /\ st.todo # <<>>
    /\ LET p == Head(st.todo) IN
       \E ok \in SUBSET (1..store[p].ntables) :
          /\ TablesProcessed(store, p) \/ ok = {}
          /\ \E nret \in Cardinality(ok)..store[p].ntables, ncost \in 0..store[p].ntables :
                /\ ncost <= nret
                /\ TablesProcessed(store, p) \/ nret = 0
                /\ returned' = returned + nret
                /\ own_ledger' = add_calls(own_ledger, TableModelName, "chat", ncost)
          /\ store' = IF TablesProcessed(store, p) THEN attach_table_metadata(store, p, ok)
                      ELSE store
          /\ probe' = [stage |-> "table", page |-> p, outcome |-> <<>>,
                       wrote |-> (TablesProcessed(store, p) /\ ok # {}),
                       counted |-> IF TablesProcessed(store, p) THEN "ok" ELSE "skipped"]
          /\ st' = [st EXCEPT !.todo = Tail(st.todo),
                              !.calls = IF TablesProcessed(store, p)
                                        THEN st.calls + store[p].ntables ELSE st.calls,
                              !.writes = IF TablesProcessed(store, p) /\ ok # {}
                                         THEN st.writes + 1 ELSE st.writes,
                              !.failed = IF TablesProcessed(store, p)
                                         THEN st.failed + (store[p].ntables - Cardinality(ok))
                                         ELSE st.failed,
                              !.attempted = st.attempted \cup {p}]
    /\ UNCHANGED <<config, base_exists, results, pc, arg, steps_to_run, idx, outcome,
                   invoked, raised, runs, ledger, resets>>
    /\ UNCHANGED <<aux, env, dcall>>

\* the counting loop of run_table_step over every page directory
PagesWithTables(s) == {p \in Pages : s[p].dir /\ HasTablesFlag(s[p].ctx)}

RECURSIVE SumTables(_, _)
SumTables(s, ps) ==
    IF ps = {} THEN 0
    ELSE LET p == CHOOSE q \in ps : TRUE IN
         Len(s[p].ctx.table_metadata) + SumTables(s, ps \ {p})

TableFinish ==
    /\ pc = "table"
    /\ st.todo = <<>>
    /\ st' = [st EXCEPT !.done = TRUE]
    /\ probe' = NoProbe
    /\ StepReturned("table",
                    [status |-> "success",
                     pages_with_tables |-> Cardinality(PagesWithTables(store)),
                     total_tables |-> SumTables(store, PagesWithTables(store))])
    /\ UNCHANGED <<config, base_exists, store, arg, steps_to_run, invoked, runs>>
    /\ UNCHANGED <<aux, cost, env, dcall>>

(* ----------------- step functions called outside run() ----------------- *)
\* a step function that ran to its end in one call
DirectStage(name, dirs) == [NewStage(name, dirs, 0) EXCEPT !.done = TRUE, !.todo = <<>>]

\* the decimal text of a small number, as it appears in a file name
DigitRun(n) == <<"1", "2", "3", "4", "5", "6", "7", "8", "9">>[n]

\* image_file.stem and image_file.name of image k of page p
ImageStem(p, k) == MakeId("image", DigitRun(p), DigitRun(k))
ImageFile(p, k) == ImageStem(p, k) \o <<".png">>

\* the entry process_all_images appends for image k of page p: the dict the
\* model returned (a title and an image type), then image_id and image_file
ImageEntry(p, k) ==
    LET e == ImageEntryOf(ImageStem(p, k), "partial")
    IN [f \in DOMAIN e \cup {"image_file"} |->
           IF f = "image_file" THEN ImageFile(p, k) ELSE e[f]]

\* image_metadata_list for the images of page p whose generation succeeded
RECURSIVE ImageMetadataList(_, _, _, _)
ImageMetadataList(p, k, n, ok) ==
    IF k > n THEN <<>>
    ELSE (IF k \in ok THEN <<ImageEntry(p, k)>> ELSE <<>>) \o ImageMetadataList(p, k + 1, n, ok)

\* the page passes every `continue` of process_all_images
ImagesProcessed(s, p) ==
    /\ s[p].ctx.exists
    /\ s[p].basic.exists
    /\ s[p].ctx.has_figures
    /\ s[p].nimages > 0

\* the image files process_all_images visits
ImageSlots(s, dirs) ==
    UNION {{<<p, k>> : k \in 1..s[p].nimages} :
               p \in {q \in Range(dirs) : ImagesProcessed(s, q)}}

\* the context record after the image loop of one page: the list replaces the
\* image_metadata key, the content elements are correlated with it, and the
\* record is written back
attach_image_metadata(ctx, p, n, ok, ordk, orde) ==
    LET list == ImageMetadataList(p, 1, n, ok)
        c == [keys |-> {"image_metadata"}
                          \cup (IF ctx.has_elements THEN {"content_elements"} ELSE {}),
              image_metadata |-> list,
              content_elements |-> ctx.content_elements]
    IN [ctx EXCEPT !.image_metadata = list,
                   !.content_elements =
                       enhance_content_elements_with_image_metadata(c, ordk, orde)
                           .content_elements]

\* the page loop of process_all_images; good holds the images whose metadata
\* was generated
process_all_images(s, good, ordk, orde) ==
    [p \in Pages |->
        IF {k \in 1..s[p].nimages : <<p, k>> \in good} = {} THEN s[p]
        ELSE [s[p] EXCEPT !.ctx =
                 attach_image_metadata(@, p, s[p].nimages,
                                       {k \in 1..s[p].nimages : <<p, k>> \in good},
                                       ordk, orde)]]

\* run_image_step(config, llm_client) with the processor's client
ImageStep ==
    /\ pc = "idle"
    /\ direct < direct_limit
    /\ direct' = direct + 1
    /\ probe' = NoProbe
    /\ IF ~base_exists \/ config.max_pages.kind = NoAttr
       THEN /\ st' = DirectStage("image", <<>>)
            /\ step_result' = ErrorResult(IF ~base_exists THEN MsgNoOcrOutput
                                          ELSE MsgNoMaxPages)
            /\ UNCHANGED <<store, ledger, returned>>
       ELSE \E fail \in SUBSET ImageSlots(store, TablePageDirs) :
            \E junk \in SUBSET fail :
            \E ncost \in 0..Cardinality(ImageSlots(store, TablePageDirs)) :
            \E ordk \in Orders(Keywords), orde \in Orders(Entities) :
               LET slots == ImageSlots(store, TablePageDirs)
                   failed == IF config.model_name = NoneVal THEN slots ELSE fail
                   good == slots \ failed
                   nret == Cardinality(good) + Cardinality(junk)
               IN /\ config.model_name = NoneVal => fail = {}
                  /\ store' = process_all_images(store, good, ordk, orde)
                  /\ ncost <= nret
                  /\ returned' = returned + nret
                  /\ ledger' = add_calls(ledger, config.model_name, "image_metadata", ncost)
                  /\ step_result' =
                         [status |-> IF failed = {} THEN "success" ELSE "partial",
                          images_processed |-> Cardinality(good),
                          images_failed |-> Cardinality(failed),
                          total_images |-> Cardinality(slots)]
                  /\ st' = [DirectStage("image", TablePageDirs) EXCEPT
                               !.ok = Cardinality(good),
                               !.failed = Cardinality(failed),
                               !.calls = IF config.model_name = NoneVal THEN 0
                                         ELSE Cardinality(slots),
                               !.writes = Cardinality({q[1] : q \in good}),
                               !.attempted = Range(TablePageDirs),
                               !.failedPages = {q[1] : q \in failed}]
    /\ UNCHANGED <<config, base_exists, results, pc, arg, steps_to_run, idx, outcome,
                   invoked, raised, runs, own_ledger, resets>>
    /\ UNCHANGED <<aux, env>>

\* the text the model returns for a corrected table: "table_html" is the table
\* markup, "fence_html" a code fence tagged html
ImproveForms ==
    {<<"fence_html", "ws", "table_html", "ws", "fence">>,
     <<"fence", "ws", "table_html", "ws", "fence">>,
     <<"ws", "table_html">>}

\* improve_table_structure after the call: strip, drop an opening fence (the
\* three backquotes of any tagged fence are dropped, its tag stays unless it is
\* html), drop a closing fence, strip
CleanHtml(content) ==
    LET t == Strip(content)
        u == IF t # <<>> /\ Head(t) = "fence_html" THEN Tail(t)
             ELSE IF t # <<>> /\ Head(t) = "fence" THEN Tail(t)
             ELSE IF t # <<>> /\ Head(t) = "fence_json" THEN <<"json">> \o Tail(t)
             ELSE t
    IN Strip(RemoveSuffix(u, "fence"))

\* the table files process_all_tables_structure visits
TableSlots(s, dirs) ==
    {q \in Range(dirs) \X (1..MaxTables) : q[2] <= s[q[1]].ntables}

\* the page loop of process_all_tables_structure: each table in good has its
\* HTML file replaced by the corrected text
process_all_tables_structure(s, good, content) ==
    [p \in Pages |->
        [s[p] EXCEPT !.html = [k \in 1..s[p].ntables |->
                                  IF <<p, k>> \in good THEN CleanHtml(content) ELSE @[k]]]]

\* run_improve_table_step(config, llm_client) with the processor's client
ImproveTableStep ==
    /\ pc = "idle"
    /\ direct < direct_limit
    /\ direct' = direct + 1
    /\ probe' = NoProbe
    /\ IF ~base_exists \/ config.max_pages.kind = NoAttr
       THEN /\ st' = DirectStage("improve_table", <<>>)
            /\ step_result' = ErrorResult(IF ~base_exists THEN MsgNoOcrOutput
                                          ELSE MsgNoMaxPages)
            /\ UNCHANGED <<store, ledger, returned>>
       ELSE \E content \in ImproveForms :
            \E fail \in SUBSET TableSlots(store, TablePageDirs) :
            \E ncost \in 0..Cardinality(TableSlots(store, TablePageDirs)) :
               LET slots == TableSlots(store, TablePageDirs)
                   failed == IF config.model_name = NoneVal THEN slots ELSE fail
                   good == slots \ failed
               IN /\ config.model_name = NoneVal => fail = {}
                  /\ store' = process_all_tables_structure(store, good, content)
                  /\ ncost <= Cardinality(good)
                  /\ returned' = returned + Cardinality(good)
                  /\ ledger' = add_calls(ledger, config.model_name,
                                         "improve_table_structure", ncost)
                  /\ step_result' =
                         [status |-> IF failed = {} THEN "success" ELSE "partial",
                          tables_processed |-> Cardinality(good),
                          tables_failed |-> Cardinality(failed),
                          total_tables |-> Cardinality(slots)]
                  /\ st' = [DirectStage("improve_table", TablePageDirs) EXCEPT
                               !.ok = Cardinality(good),
                               !.failed = Cardinality(failed),
                               !.calls = IF config.model_name = NoneVal THEN 0
                                         ELSE Cardinality(slots),
                               !.writes = Cardinality(good),
                               !.attempted = Range(TablePageDirs),
                               !.failedPages = {q[1] : q \in failed}]
    /\ UNCHANGED <<config, base_exists, results, pc, arg, steps_to_run, idx, outcome,
                   invoked, raised, runs, own_ledger, resets>>
    /\ UNCHANGED <<aux, env>>

\* processor.llm_client.reset_cost_tracking(), called between two pipeline calls
ResetCostTracking ==
    /\ pc = "idle"
    /\ resets < reset_limit
    /\ resets' = resets + 1
    /\ ledger' = reset(ledger)
    /\ UNCHANGED <<config, base_exists, store, results, pc, arg, steps_to_run, idx, st,
                   probe, outcome, invoked, raised, runs, own_ledger, returned>>
    /\ UNCHANGED <<aux, env, dcall>>

(* ------------------ several run() calls on one processor ---------------- *)
\* number of run() calls the caller makes in RerunSpec
MaxReruns == 2

\* a processor with valid credentials and a model name, no page cap or (as
\* PipelineConfig is declared) no max_pages attribute at all, over an output
\* directory that is empty or holds page 1 fully processed and page 2
\* extracted; the caller of the second kind also calls a step function directly
RerunConfigs ==
    {c \in Configs : /\ c.skip_ocr_if_exists
                     /\ c.skip_metadata_if_exists
                     /\ c.max_pages.kind \in {NoneVal, NoAttr}
                     /\ c.model_name # NoneVal}

RerunStores ==
    {[p \in Pages |-> NoPage],
     [p \in Pages |-> IF p = 1
                      THEN [ExtractedPage(NoPage, p, FullLayout) EXCEPT !.ctx = ProcessedCtx(p)]
                      ELSE ExtractedPage(NoPage, p, FullLayout)]}

InitRerun ==
    /\ config \in RerunConfigs
    /\ store \in RerunStores
    /\ base_exists = HasPageDirs(store)
    /\ has_valid_config = TRUE
    /\ run_limit = MaxReruns
    /\ direct_limit = (IF config.max_pages.kind = NoAttr THEN MaxDirectCalls ELSE 0)
    /\ reset_limit \in (IF config.max_pages.kind = NoAttr THEN {0} ELSE 0..MaxResets)
    /\ results = [s \in Range(AllSteps) |-> NoResult]
    /\ pc = "new"
    /\ arg = [none |-> TRUE, list |-> <<>>]
    /\ steps_to_run = <<>>
    /\ idx = 1
    /\ st = NoStage
    /\ probe = NoProbe
    /\ outcome = [kind |-> "none"]
    /\ invoked = <<>>
    /\ raised = {}
    /\ runs = 0
    /\ direct = 0
    /\ step_result = NoResult
    /\ ledger = NewLedger
    /\ own_ledger = NewLedger
    /\ returned = 0
    /\ resets = 0
    /\ AuxIdle

(* ------------------- sub-element correlation, applied ------------------- *)
MaxImages == 2

MaxElems == 1

MaxApplied == 1

SeqsUpTo(S, n) == UNION {[1..k -> S] : k \in 0..n}

Cms ==
    {[keys |-> ks,
      image_metadata |-> IF "image_metadata" \in ks THEN im ELSE <<>>,
      content_elements |-> IF "content_elements" \in ks THEN ce ELSE <<>>] :
        ks \in SUBSET {"image_metadata", "content_elements"},
        im \in SeqsUpTo(ImageEntries, MaxImages),
        ce \in SeqsUpTo(Elements, MaxElems)}

\* the pipeline is not running
PipelineOff ==
    /\ config = [skip_ocr_if_exists |-> FALSE, skip_metadata_if_exists |-> FALSE,
                 max_pages |-> [kind |-> NoneVal, cap |-> 0],
                 model_name |-> "openai/gpt-4o"]
    /\ has_valid_config = TRUE
    /\ run_limit = 0
    /\ direct_limit = 0
    /\ reset_limit = 0
    /\ store = [p \in Pages |-> NoPage]
    /\ base_exists = FALSE
    /\ results = [s \in Range(AllSteps) |-> NoResult]
    /\ pc = "off"
    /\ arg = [none |-> TRUE, list |-> <<>>]
    /\ steps_to_run = <<>>
    /\ idx = 1
    /\ st = NoStage
    /\ probe = NoProbe
    /\ outcome = [kind |-> "none"]
    /\ invoked = <<>>
    /\ raised = {}
    /\ runs = 0
    /\ direct = 0
    /\ step_result = NoResult
    /\ ledger = NewLedger
    /\ own_ledger = NewLedger
    /\ returned = 0
    /\ resets = 0

InitCorrelate ==
    /\ PipelineOff
    /\ WinIdle
    /\ TrkIdle
    /\ cm \in Cms
    /\ cm_prev = cm
    /\ applied = 0

\* a call of enhance_content_elements_with_image_metadata(cm); the dict is
\* changed in place and returned
Correlate ==
    /\ pc = "off"
    /\ applied < MaxApplied
    /\ \E ordk \in Orders(Keywords), orde \in Orders(Entities) :
          cm' = enhance_content_elements_with_image_metadata(cm, ordk, orde)
    /\ cm_prev' = cm
    /\ applied' = applied + 1
    /\ UNCHANGED <<pipeline, win, trk>>

NextCorrelate == Correlate

SpecCorrelate == InitCorrelate /\ [][NextCorrelate]_vars

(* -------------------- context-window builder, applied ------------------- *)
WinStores == [WinPages -> PageFiles]

InitWindow ==
    /\ PipelineOff
    /\ CorrIdle
    /\ TrkIdle
    /\ wstore \in WinStores
    /\ wpage \in 0..(MaxWinPages + 1)
    /\ window = NoWindow

\* a call of get_page_context(wpage, base)
BuildWindow ==
    /\ pc = "off"
    /\ window = NoWindow
    /\ window' = get_page_context(wstore, wpage)
    /\ UNCHANGED <<pipeline, corr, trk, wstore, wpage>>

NextWindow == BuildWindow

SpecWindow == InitWindow /\ [][NextWindow]_vars

(* ---------------------------- specification ---------------------------- *)
(* ------------------------- cost tracker, applied ------------------------ *)
\* token counts a response reports and costs completion_cost returns
MaxTokens == 1
TokenVals == 0..MaxTokens
CostVals == {1, 3}

\* number of priced calls fed to the tracker between two resets
MaxLedgerCalls == 2

UsageKeys == {"prompt_tokens", "completion_tokens", "total_tokens"}

\* usage dicts: each key missing or holding a token count
Usages ==
    {u \in [keys : SUBSET UsageKeys, prompt_tokens : TokenVals,
            completion_tokens : TokenVals, total_tokens : TokenVals] :
        \A k \in UsageKeys \ u.keys : u[k] = 0}

\* responses handed to add_call: cost_ok FALSE is a response completion_cost
\* raises on
TrackerResponses == [cost_ok : BOOLEAN, cost : CostVals, usage : Usages]

InitLedger ==
    /\ PipelineOff
    /\ AuxIdle

\* cost_tracker.add_call(response, model_name, call_type)
AddCall ==
    /\ pc = "off"
    /\ Len(tracker.cost_breakdown) < MaxLedgerCalls
    /\ \E response \in TrackerResponses :
          /\ tracker' = add_call(tracker, response, TableModelName, "chat")
          /\ tracker_op' = [op |-> "add_call", cost_ok |-> response.cost_ok]
    /\ tracker_prev' = tracker
    /\ UNCHANGED <<pipeline, corr, win>>

\* cost_tracker.reset()
Reset ==
    /\ pc = "off"
    /\ tracker' = reset(tracker)
    /\ tracker_op' = [op |-> "reset"]
    /\ tracker_prev' = tracker
    /\ UNCHANGED <<pipeline, corr, win>>

NextLedger == AddCall \/ Reset

SpecLedger == InitLedger /\ [][NextLedger]_vars

Next ==
    \/ Construct
    \/ \E a \in StepsArgs : Run(a)
    \/ RunExit
    \/ OcrStart
    \/ OcrPage
    \/ OcrFinish
    \/ ContextStart
    \/ ContextPage
    \/ ContextFinish
    \/ EnhanceStart
    \/ EnhancePage
    \/ EnhanceFinish
    \/ TableStart
    \/ TablePage
    \/ TableFinish
    \/ ImageStep
    \/ ImproveTableStep
    \/ ResetCostTracking

Spec == Init /\ [][Next]_vars

\* the same processor, run() called up to MaxReruns times
SpecRerun == InitRerun /\ [][Next]_vars

(* ------------------------------- claims -------------------------------- *)
Get(rec, f, default) == IF f \in DOMAIN rec THEN rec[f] ELSE default

RunReturned == pc = "idle" /\ outcome.kind = "returned"

\* C1: when the step function at position i raises, run() still invokes every
\* later step and returns a report that maps that step to status "error" with
\* the exception's message.
C1_FaultIsolation ==
    /\ \A r \in raised : results[steps_to_run[r.pos]] = ErrorResult(r.msg)
    /\ (pc = "idle" /\ raised # {}) =>
          (outcome.kind = "returned" /\ invoked = steps_to_run)

\* a run has returned in which a step raised and a different step ran after it
C1_Witness ==
    /\ RunReturned
    /\ \E r \in raised :
          /\ r.pos < Len(steps_to_run)
          /\ invoked[r.pos + 1] # invoked[r.pos]
          /\ results[invoked[r.pos]] = ErrorResult(MsgNoMaxPages)
          /\ results[invoked[r.pos + 1]].status # "none"

\* C2: a run() call whose list holds a name that is no key of all_steps fails
\* at once: no step function is invoked, results and the artifact store are as
\* before, and the error names every invalid entry and the valid names.
C2_UnknownStageFailsFast ==
    [][(runs' = runs + 1 /\ ~arg'.none
          /\ \E i \in 1..Len(arg'.list) : arg'.list[i] \notin {"ocr", "context", "enhance", "table"})
       => /\ pc' = "idle"
          /\ outcome'.kind = "ValueError"
          /\ \A i \in 1..Len(arg'.list) :
                (arg'.list[i] \notin {"ocr", "context", "enhance", "table"})
                    <=> (arg'.list[i] \in Range(outcome'.invalid_steps))
          /\ Range(outcome'.valid_steps) = {"ocr", "context", "enhance", "table"}
          /\ invoked' = <<>>
          /\ results' = results
          /\ store' = store
          /\ base_exists' = base_exists]_vars

\* a call with a valid name followed by a misspelt one has failed over a store
\* that holds extracted pages
C2_Witness ==
    /\ outcome.kind = "ValueError"
    /\ arg.list = <<"ocr", "tabel">>
    /\ outcome.invalid_steps = <<"tabel">>
    /\ invoked = <<>>
    /\ \A p \in Pages : store[p].basic.exists

\* C3: run() without a step list invokes the six stages (extraction,
\* table-structure correction, context generation, flag enhancement, table
\* metadata, image metadata), each once, in that order.
C3_Claim == (RunReturned /\ arg.none) => invoked = ExportedSteps

\* C4: run() with a list of valid names executes the selected stages in the
\* fixed dependency order, whatever the order of the request, each once.
C4_Claim ==
    (RunReturned /\ ~arg.none)
        => invoked = SelectSeq(AllSteps, LAMBDA s : s \in Range(arg.list))

\* the context record `new` keeps everything the record `old` held
CtxPreserved(old, new) ==
    old.exists =>
        /\ new.exists
        /\ new.doc = old.doc
        /\ (old.enhanced => new.enhanced)
        /\ Range(old.table_metadata) \subseteq Range(new.table_metadata)

\* C5: once a page's context record exists, every step of every stage keeps the
\* record, its generated content, its flags and every table_metadata entry.
C5_Claim == [][\A p \in Pages : CtxPreserved(store[p].ctx, store'[p].ctx)]_vars

\* C6: once a page's structural metadata record is written, no step of any
\* stage, a re-run of extraction included, changes it.
C6_Claim ==
    [][\A p \in Pages : store[p].basic.exists => store'[p].basic = store[p].basic]_vars

\* C7: the context stage run right after a context stage that reported success
\* or skipped, with skip-if-exists enabled, calls the service for no page, writes
\* no record, reports zero pages processed and every in-scope page as skipped.
C7_Claim ==
    (st.stage = "context" /\ st.done /\ st.prev = "context"
        /\ st.prev_status \in {"success", "skipped"} /\ config.skip_metadata_if_exists)
    => /\ st.calls = 0
       /\ st.writes = 0
       /\ Get(results["context"], "pages_processed", -1) = 0
       /\ Get(results["context"], "pages_skipped", -1) = PagesToCheck

\* a response that is one JSON object, bare or inside a code fence (with or
\* without the json tag), whitespace allowed around each part
WellFormedDoc(r) ==
    IF Len(Strip(r)) = 1 THEN Strip(r)[1] \in Docs
    ELSE /\ Len(Strip(r)) >= 3
         /\ Head(Strip(r)) \in {"fence_json", "fence"}
         /\ Strip(r)[Len(Strip(r))] = "fence"
         /\ Len(Strip(SubSeq(Strip(r), 2, Len(Strip(r)) - 1))) = 1
         /\ Strip(SubSeq(Strip(r), 2, Len(Strip(r)) - 1))[1] \in Docs

DocOf(r) ==
    IF Len(Strip(r)) = 1 THEN Strip(r)[1]
    ELSE Strip(SubSeq(Strip(r), 2, Len(Strip(r)) - 1))[1]

\* C8: a page the context stage processes whose service call returns well-formed
\* JSON, fenced or not, gets the parsed content persisted as its context record
\* and is counted as processed.
C8_Claim ==
    (probe.stage = "context" /\ probe.outcome \in Responses /\ WellFormedDoc(probe.outcome))
    => /\ probe.counted = "ok"
       /\ store[probe.page].ctx.exists
       /\ store[probe.page].ctx.doc = DocOf(probe.outcome)

\* C9: a page of the context stage that fails (window build, service call or
\* save) is counted in pages_failed, has no record written, and every other page
\* the stage set out to process is still attempted.
C9_PageFailureIsolated ==
    /\ (probe.stage = "context" /\ probe.counted = "failed")
          => (~probe.wrote /\ probe.page \in st.failedPages /\ pc = "context")
    /\ st.stage = "context"
          => st.attempted \cup Range(st.todo) = Range(st.planned)
    /\ (st.stage = "context" /\ st.done /\ st.planned # <<>>)
          => /\ results["context"].status = "success"
             /\ st.attempted = Range(st.planned)
             /\ results["context"].pages_failed = Cardinality(st.failedPages)

\* the stage has finished after page 1 failed on a service error and page 2 was
\* attempted after it
C9_Witness ==
    /\ st.stage = "context"
    /\ st.done
    /\ st.planned = <<1, 2>>
    /\ st.failedPages = {1, 2}
    /\ st.calls = 2
    /\ results["context"].status = "success"
    /\ results["context"].pages_failed = 2

\* C10: an OCR or rendering failure on one page of the extraction stage does not
\* stop the stage: every other page of the document is still extracted.
C10_Claim ==
    (st.stage = "ocr" /\ st.done /\ st.failedPages # {})
        => st.attempted = Range(st.planned)

\* C11: after flag enhancement of a page, has_tables holds exactly when the
\* structural record's tables list is non-empty and table_count is its length;
\* likewise has_figures/figure_count and has_text_blocks/text_block_count.
C11_FlagsMatchLists ==
    (probe.stage = "enhance" /\ probe.wrote) =>
        LET c == store[probe.page].ctx
            b == store[probe.page].basic
        IN /\ c.has_tables = (Len(b.tables) > 0)
           /\ c.table_count = Len(b.tables)
           /\ c.has_figures = (Len(b.figures) > 0)
           /\ c.figure_count = Len(b.figures)
           /\ c.has_text_blocks = (Len(b.text_blocks) > 0)
           /\ c.text_block_count = Len(b.text_blocks)

\* a page with one table, no figure and text has just been enhanced
C11_Witness ==
    /\ probe.stage = "enhance"
    /\ probe.wrote
    /\ Len(store[probe.page].basic.tables) = 1
    /\ store[probe.page].basic.figures = <<>>
    /\ store[probe.page].ctx.has_tables
    /\ ~store[probe.page].ctx.has_figures
    /\ store[probe.page].ctx.has_text_blocks

\* C12: flag enhancement applied right after a flag enhancement, the structural
\* records unchanged in between, leaves every context record as the first
\* application left it.
C12_EnhanceIdempotent ==
    [][(pc = "enhance" /\ st.prev = "enhance" /\ st.prev_status = "success")
          => store' = store]_vars

\* the second enhancement in a row has just rewritten a page's record
C12_Witness ==
    /\ probe.stage = "enhance"
    /\ probe.wrote
    /\ st.stage = "enhance"
    /\ st.prev = "enhance"
    /\ st.prev_status = "success"
    /\ store[probe.page].ctx.table_count > 0

\* the keys flag enhancement writes; `enhanced` stands for their presence in
\* the record
EnhancedFields ==
    {"enhanced", "has_tables", "has_figures", "has_text_blocks",
     "table_count", "figure_count", "text_block_count", "content_summary"}

\* C13: a step of flag enhancement changes, of a context record, only the flags,
\* the counts and content_summary: every other field of the record (the
\* generated content, table_metadata, image_metadata, the content elements)
\* keeps its value, and the structural record and every other artifact of the
\* page are not changed.
C13_EnhanceFrame ==
    [][pc = "enhance" =>
          \A p \in Pages :
             /\ \A f \in DOMAIN store[p] \ {"ctx"} : store'[p][f] = store[p][f]
             /\ DOMAIN store'[p].ctx = DOMAIN store[p].ctx
             /\ \A f \in DOMAIN store[p].ctx \ EnhancedFields :
                   store'[p].ctx[f] = store[p].ctx[f]]_vars

\* enhancement has rewritten the flags of a record that carries table_metadata,
\* image_metadata written by the image stage, and content elements
C13_Witness ==
    /\ probe.stage = "enhance"
    /\ probe.wrote
    /\ st.prev = "image"
    /\ store[probe.page].ctx.table_metadata # <<>>
    /\ store[probe.page].ctx.image_metadata # <<>>
    /\ store[probe.page].ctx.content_elements # <<>>

\* the entry the element at position i of the dict c is merged with
MatchOf(c, i) ==
    image_metadata_map(c.image_metadata)[
        MatchedId(image_metadata_map(c.image_metadata), c.content_elements[i].element_id)]

\* the element at position i of c is a figure whose id fits the pattern and has
\* an entry under one of the two spellings
HasMatch(c, i) ==
    LET e == c.content_elements[i] IN
    /\ "image_metadata" \in c.keys
    /\ e.type = "figure"
    /\ re_match(e.element_id)
    /\ \E k \in DOMAIN c.image_metadata :
          c.image_metadata[k].image_id \in
              {MakeId("image", e.element_id[3], e.element_id[5]),
               MakeId("figure", e.element_id[3], e.element_id[5])}

\* C14: after sub-element correlation, the keywords of every figure element that
\* matched an image_metadata entry are the set union of its keywords before and
\* the entry's keywords, each listed once; likewise its entities.
C14_UnionMerge ==
    applied > 0 =>
        \A i \in DOMAIN cm_prev.content_elements :
            HasMatch(cm_prev, i) =>
                LET old == cm_prev.content_elements[i]
                    new == cm.content_elements[i]
                    m == MatchOf(cm_prev, i)
                IN /\ Range(new.keywords)
                        = Range(ListGet(old.keywords)) \cup Range(ListGet(m.keywords))
                   /\ Len(new.keywords) = Cardinality(Range(new.keywords))
                   /\ Range(new.entities)
                        = Range(ListGet(old.entities)) \cup Range(ListGet(m.entities))
                   /\ Len(new.entities) = Cardinality(Range(new.entities))

\* element figure-1-1 with keywords a, b was merged with entry image-1-1 with
\* keywords b, c: three keywords
C14_Witness ==
    /\ applied > 0
    /\ Len(cm_prev.content_elements) > 0
    /\ HasMatch(cm_prev, 1)
    /\ cm_prev.content_elements[1].element_id = MakeId("figure", "1", "1")
    /\ cm_prev.content_elements[1].keywords = <<"a", "b">>
    /\ MatchOf(cm_prev, 1).image_id = MakeId("image", "1", "1")
    /\ MatchOf(cm_prev, 1).keywords = <<"b", "c">>
    /\ Range(cm.content_elements[1].keywords) = {"a", "b", "c"}
    /\ Len(cm.content_elements[1].keywords) = 3

\* both spellings of the element's (page, index) are image ids of the dict c
BothSpellings(c, i) ==
    LET id == c.content_elements[i].element_id IN
    /\ \E k \in DOMAIN c.image_metadata :
          c.image_metadata[k].image_id = MakeId("image", id[3], id[5])
    /\ \E k \in DOMAIN c.image_metadata :
          c.image_metadata[k].image_id = MakeId("figure", id[3], id[5])

\* C15: when the lookup holds both the image- and the figure- entry for a
\* matched element's (page, index), the element is merged with the image- entry,
\* whichever spelling its own element_id uses.
C15_ImageSpellingWins ==
    applied > 0 =>
        \A i \in DOMAIN cm_prev.content_elements :
            (HasMatch(cm_prev, i) /\ BothSpellings(cm_prev, i)) =>
                LET old == cm_prev.content_elements[i]
                    new == cm.content_elements[i]
                    m == image_metadata_map(cm_prev.image_metadata)[
                             MakeId("image", old.element_id[3], old.element_id[5])]
                IN /\ new.image_type = DictGet(m.image_type, "")
                   /\ new.natural_description = DictGet(m.natural_description, "")
                   /\ Truthy(m.title) => new.title = m.title
                   /\ Range(new.keywords)
                        = Range(ListGet(old.keywords)) \cup Range(ListGet(m.keywords))

\* an element spelled figure-1-1 met a lookup whose image-1-1 and figure-1-1
\* entries carry different image types, and took the image- entry's
C15_Witness ==
    /\ applied > 0
    /\ Len(cm_prev.content_elements) > 0
    /\ HasMatch(cm_prev, 1)
    /\ BothSpellings(cm_prev, 1)
    /\ cm_prev.content_elements[1].element_id = MakeId("figure", "1", "1")
    /\ image_metadata_map(cm_prev.image_metadata)[MakeId("figure", "1", "1")].image_type
          = "diagram"
    /\ cm.content_elements[1].image_type = "photo"

\* C16: after sub-element correlation no field of an element that held a
\* non-empty value before holds an empty value or is missing: title, summary,
\* image_type, natural_description and the other copied fields keep the original
\* where the matched record lacks the field or supplies it empty.
C16_Claim ==
    applied > 0 =>
        \A i \in DOMAIN cm_prev.content_elements :
            LET old == cm_prev.content_elements[i]
                new == cm.content_elements[i]
            IN /\ Truthy(old.image_type) => Truthy(new.image_type)
               /\ Truthy(old.natural_description) => Truthy(new.natural_description)
               /\ Truthy(old.title) => Truthy(new.title)
               /\ Truthy(old.summary) => Truthy(new.summary)
               /\ ListGet(old.keywords) # <<>> => ListGet(new.keywords) # <<>>
               /\ ListGet(old.entities) # <<>> => ListGet(new.entities) # <<>>
               /\ Truthy(old.dates) => Truthy(new.dates)
               /\ Truthy(old.locations) => Truthy(new.locations)
               /\ Truthy(old.model_name) => Truthy(new.model_name)
               /\ Truthy(old.component_type) => Truthy(new.component_type)
               /\ Truthy(old.model_applicability) => Truthy(new.model_applicability)
               /\ Truthy(old.application_context) => Truthy(new.application_context)
               /\ Truthy(old.related_tables) => Truthy(new.related_tables)

\* C17: sub-element correlation returns, and every element without a match (not
\* a figure, an element_id the pattern does not match, or neither spelling in
\* the lookup) has all its fields as before; so has every element when the dict
\* has no image_metadata or an empty one.
C17_UnmatchedUnchanged ==
    applied > 0 =>
        /\ cm.keys = cm_prev.keys
        /\ cm.image_metadata = cm_prev.image_metadata
        /\ Len(cm.content_elements) = Len(cm_prev.content_elements)
        /\ \A i \in DOMAIN cm_prev.content_elements :
              ~HasMatch(cm_prev, i) => cm.content_elements[i] = cm_prev.content_elements[i]
        /\ ("image_metadata" \notin cm_prev.keys \/ cm_prev.image_metadata = <<>>)
              => cm = cm_prev

\* correlation was applied to a table element whose id fits the pattern and
\* whose image-1-1 entry supplies every field: the element is as before
C17_Witness ==
    /\ applied > 0
    /\ Len(cm_prev.content_elements) > 0
    /\ cm_prev.content_elements[1].type = "table"
    /\ cm_prev.content_elements[1].element_id = MakeId("figure", "1", "1")
    /\ Truthy(cm_prev.content_elements[1].title)
    /\ Len(cm_prev.image_metadata) > 0
    /\ cm_prev.image_metadata[1] = ImageEntryOf(MakeId("image", "1", "1"), "full")
    /\ cm.content_elements[1] = cm_prev.content_elements[1]

\* pages 1..n of the store are extracted (directory and page image present)
\* and no later page directory exists
ExtractedDocument(s, n) ==
    /\ \A k \in WinPages : k <= n => (s[k].dir /\ s[k].img)
    /\ \A k \in WinPages : k > n => ~s[k].dir

\* C18: in an extracted N-page document, N >= 2, the window of page 1 has no
\* previous snapshot and the snapshot of page 2 as next; the window of page N has
\* the snapshot of page N-1 as previous and no next snapshot (a dummy with an
\* empty image once degraded); a page in between has both neighbours, numbered
\* n-1 and n+1.
C18_WindowNeighbours ==
    \A n \in 2..MaxWinPages :
        (window # NoWindow /\ ExtractedDocument(wstore, n) /\ wpage \in 1..n) =>
            /\ window.err = "none"
            /\ window.current_page.page_number = wpage
            /\ IF wpage = 1
               THEN window.previous_page = NonePageData
               ELSE /\ window.previous_page # NonePageData
                    /\ window.previous_page.page_number = wpage - 1
                    /\ window.previous_page.image_data_uri = DataUri(wpage - 1)
            /\ IF wpage = n
               THEN /\ window.next_page = NonePageData
                    /\ WithDummies(window, wpage).next_page.image_data_uri = <<>>
                    /\ WithDummies(window, wpage).next_page.page_number = n + 1
               ELSE /\ window.next_page # NonePageData
                    /\ window.next_page.page_number = wpage + 1
                    /\ window.next_page.image_data_uri = DataUri(wpage + 1)

\* the window of page 2 of an extracted three-page document was built and holds
\* pages 1 and 3
C18_Witness ==
    /\ window # NoWindow
    /\ ExtractedDocument(wstore, 3)
    /\ wpage = 2
    /\ window.err = "none"
    /\ window.previous_page.page_number = 1
    /\ window.next_page.page_number = 3

\* C19: building the window fails exactly when the page index is below 1 or the
\* current page's directory is absent; with the directory present it succeeds
\* whatever image, metadata or text file of the current or a neighbouring page is
\* missing.
C19_Claim ==
    window # NoWindow =>
        ((window.err # "none") <=> (wpage < 1 \/ ~DirExists(wstore, wpage)))

\* the orchestrator's tracker loses entries only in an explicit
\* reset_cost_tracking() call
C20_NoImplicitReset ==
    [][ledger'.call_count < ledger.call_count => resets' = resets + 1]_vars

\* C20: when run() has returned and the caller has made no explicit reset, the
\* cost tracker the orchestrator prints its cost summary from has one breakdown
\* entry and one call_count increment for every model-service call that
\* returned since construction, whichever stage made the call.
C20_Claim ==
    (RunReturned /\ resets = 0) =>
        /\ ledger.call_count = returned
        /\ Len(ledger.cost_breakdown) = returned


(* C21: a configuration with missing credentials or with a missing model
   identifier is rejected before any stage runs: with such a configuration no
   step ever changes the list of invoked stage functions away from empty and
   no step changes the artifact store. *)
BadConfiguration == ~has_valid_config \/ config.model_name = NoneVal

C21_Claim ==
    [][BadConfiguration => (invoked' = <<>> /\ store' = store)]_vars

\* the half the constructor does enforce: without credentials nothing runs
C21_CredentialsHalf ==
    ~has_valid_config => (pc \in {"new", "init_failed"} /\ invoked = <<>>)

\* the extraction stage has left every page of the document with its directory
\* and its structural record
AllPagesExtracted == \A p \in Pages : store[p].dir /\ store[p].basic.exists

\* when the skip test of the extraction stage holds, the stage returns the
\* skipped result in that one step, starts no page loop and changes no artifact
C22_SkipHalf ==
    [][(invoked' = Append(invoked, "ocr") /\ OcrSkips)
          => /\ results'["ocr"] = OcrSkippedResult
             /\ pc' # "ocr"
             /\ store' = store
             /\ base_exists' = base_exists]_vars

\* when the skip test fails, the finished stage has extracted every page
C22_ExtractHalf ==
    [](st.stage = "ocr" /\ st.done /\ st.planned # <<>> => AllPagesExtracted)

(* C22: the extraction stage returns 'skipped' without calling the OCR service
   and without changing any artifact whenever output exists and skip-if-exists
   is enabled; otherwise it performs extraction for every page. *)
C22_Claim == C22_SkipHalf /\ C22_ExtractHalf

\* the stages that read the extraction output
StagesAfterExtraction == {"context", "enhance", "table", "image", "improve_table"}

\* with the output root absent, a stage after extraction returns the error
\* result without a model-service call and without a write
C23_RootAbsentHalf ==
    [](st.stage \in StagesAfterExtraction /\ st.done /\ ~base_exists
          => /\ LastResult = ErrorResult(MsgNoOcrOutput)
             /\ st.calls = 0
             /\ st.writes = 0
             /\ st.attempted = {})

\* with the output root present, a stage in which a page or element failed
\* does not report 'error'
C23_RootPresentHalf ==
    [](st.stage # "none" /\ st.done /\ base_exists /\ st.failedPages # {}
          => LastResult.status # "error")

(* C23: a stage reports 'error' only for a coarse precondition failure: with
   the output root absent each stage after extraction returns 'error' without
   a service call or a write, and with the root present no per-page or
   per-element fault makes a stage report 'error'. *)
C23_Claim == C23_RootAbsentHalf /\ C23_RootPresentHalf

\* the same for the stages after extraction only, whether run() or the caller
\* invoked them: their page and element
\* faults never surface as the stage's status
C23_LaterStagesIsolate ==
    st.stage \in StagesAfterExtraction /\ st.done /\ base_exists /\ st.failedPages # {}
        => LastResult.status # "error"

\* the three counters of a context-stage result partition the in-scope pages,
\* and pages_skipped is the number of in-scope pages that carried a record at
\* the start of the stage while skip-if-exists was enabled (st.skipped)
ContextPartition(r) ==
    /\ Get(r, "pages_processed", -1) + Get(r, "pages_failed", -1)
           + Get(r, "pages_skipped", -1) = PagesToCheck
    /\ Get(r, "pages_skipped", -1) = st.skipped

(* C24: in every result of the context stage the in-scope pages are
   partitioned into processed, failed and skipped: the three counters add up
   to the number of in-scope pages, and the skipped counter counts exactly the
   pages that carried a record at the start with skip-if-exists enabled. *)
C24_Claim ==
    (st.stage = "context" /\ st.done
        /\ results["context"].status \in {"success", "skipped"})
    => ContextPartition(results["context"])

\* the partition as it holds for the results with status success
C24_SuccessHalf ==
    (st.stage = "context" /\ st.done /\ results["context"].status = "success")
    => ContextPartition(results["context"])

\* the table_metadata list of page p has exactly one entry for each table
\* artifact of the page, and the entry carries the artifact's identifier, the
\* name of its HTML file and the text of that file
OneEntryPerTable(s, p) ==
    LET tm == s[p].ctx.table_metadata IN
    /\ Len(tm) = s[p].ntables
    /\ \A k \in 1..s[p].ntables :
          /\ Cardinality({i \in 1..Len(tm) : tm[i].table_id = TableId(p, k)}) = 1
          /\ \A i \in 1..Len(tm) :
                tm[i].table_id = TableId(p, k) =>
                    /\ tm[i].table_file = TableFile(p, k)
                    /\ tm[i].table_html = s[p].html[k]

\* the table stage went through process_all_tables and no table of it failed
TableStageAllSucceeded ==
    /\ st.stage = "table"
    /\ st.done
    /\ results["table"].status = "success"
    /\ st.failed = 0

(* C25: after the table stage has run with every model call succeeding, every
   in-scope page whose context record declares has_tables has a table_metadata
   list with exactly one entry per table artifact of the page, each entry
   carrying the table's identifier, its file name and the HTML of the
   artifact. *)
C25_TableMetadataComplete ==
    TableStageAllSucceeded =>
        \A p \in 1..PagesToCheck :
            (store[p].ctx.exists /\ HasTablesFlag(store[p].ctx)) => OneEntryPerTable(store, p)

\* a table stage that wrote the list of an in-scope page holding MaxTables
\* table artifacts
C25_Witness ==
    /\ TableStageAllSucceeded
    /\ st.writes >= 1
    /\ \E p \in 1..PagesToCheck :
          /\ p \in st.attempted
          /\ HasTablesFlag(store[p].ctx)
          /\ store[p].ntables = MaxTables
          /\ Len(store[p].ctx.table_metadata) = MaxTables

\* the context record of the page exists and declares has_tables true; the key
\* is written by flag enhancement only
DeclaresTables(c) == c.exists /\ c.enhanced /\ c.has_tables

(* C26: the table stage makes no model call for, and leaves unchanged the
   context record of, every page whose record does not declare has_tables
   true; a record that flag enhancement has not yet touched is therefore never
   changed by the table stage. *)
C26_TableGate ==
    [][pc = "table" =>
          \A p \in Pages :
              ~DeclaresTables(store[p].ctx) =>
                  /\ store'[p].ctx = store[p].ctx
                  /\ (st.todo # <<>> /\ Head(st.todo) = p) =>
                         /\ st'.calls = st.calls
                         /\ returned' = returned
                         /\ own_ledger' = own_ledger]_vars

\* the table loop has just passed over a page whose record exists but was
\* never enhanced
C26_Witness ==
    /\ probe.stage = "table"
    /\ probe.counted = "skipped"
    /\ store[probe.page].ctx.exists
    /\ ~store[probe.page].ctx.enhanced
    /\ store[probe.page].ntables > 0

(* C27: a stage result has status 'success' only if no page or sub-element
   failed during the stage: whenever at least one per-item failure occurred,
   the status of the finished stage is 'partial' or 'error'. *)
C27_Claim ==
    (st.stage # "none" /\ st.done /\ st.failed > 0)
        => LastResult.status \in {"partial", "error"}

\* the stages whose status is computed from the failure counter
CountingStages == {"image", "improve_table"}

\* the same for the image and table-structure stages only
C27_CountingStages ==
    (st.stage \in CountingStages /\ st.done /\ st.failed > 0)
        => LastResult.status = "partial"

\* the report run() returns: the names that have an entry in self.results
ReportedSteps == {s \in Range(AllSteps) : results[s] # NoResult}

(* C28: the report returned by each call of run() has an entry for exactly the
   stages requested in that call, also when run() is called more than once on
   the same processor with different stage subsets. *)
C28_Claim == RunReturned => ReportedSteps = Range(steps_to_run)

\* the same for the first call on a processor
C28_FirstCall == (RunReturned /\ runs = 1) => ReportedSteps = Range(steps_to_run)

(* C29: whenever the extraction stage returns status 'success' or 'skipped',
   every page of the document has a page directory holding a structural
   record, also when an earlier extraction stopped partway and left only some
   page directories behind. *)
C29_Claim ==
    (st.stage = "ocr" /\ st.done /\ results["ocr"].status \in {"success", "skipped"})
        => AllPagesExtracted

\* the same for the results with status success
C29_SuccessHalf ==
    (st.stage = "ocr" /\ st.done /\ results["ocr"].status = "success")
        => AllPagesExtracted

\* the sum of field f over the entries of a breakdown list
RECURSIVE SumOver(_, _)
SumOver(entries, f) ==
    IF entries = <<>> THEN 0 ELSE Head(entries)[f] + SumOver(Tail(entries), f)

(* C30: after any sequence of add_call and reset operations on a cost tracker,
   call_count equals the number of breakdown entries and each token total
   equals the sum of its field over the entries; an add_call whose cost
   computation fails changes no field, and reset returns every field to its
   initial zero or empty value. *)
C30_LedgerConsistent ==
    /\ tracker.call_count = Len(tracker.cost_breakdown)
    /\ tracker.total_prompt_tokens = SumOver(tracker.cost_breakdown, "prompt_tokens")
    /\ tracker.total_completion_tokens = SumOver(tracker.cost_breakdown, "completion_tokens")
    /\ tracker.total_tokens = SumOver(tracker.cost_breakdown, "total_tokens")
    /\ (tracker_op.op = "add_call" /\ ~tracker_op.cost_ok) => tracker = tracker_prev
    /\ tracker_op.op = "reset" =>
           tracker = [total_cost |-> 0, total_prompt_tokens |-> 0,
                      total_completion_tokens |-> 0, total_tokens |-> 0,
                      call_count |-> 0, cost_breakdown |-> <<>>]

\* an add_call whose cost computation failed, on a tracker that already holds
\* an entry with tokens
C30_Witness ==
    /\ tracker_op.op = "add_call"
    /\ ~tracker_op.cost_ok
    /\ Len(tracker.cost_breakdown) = 1
    /\ tracker.total_tokens > 0
    /\ tracker.total_prompt_tokens > 0

====
